---------------------------- MODULE Spec2Model ----------------------------
(***************************************************************************)
(* The append-only stream index of diy-redis: the key codec (keys.go), the *)
(* bitmap radix trie (radix.go) and the Stream object (Put, Search,        *)
(* Range).  Nodes are Go values held inline in their parent's children     *)
(* slice, so a trie is a nested record; a *RxNode is the path of child     *)
(* indexes that leads to it from the root.  Go indexes are 0-based and are *)
(* kept 0-based here: At and Slice translate them.                         *)
(*                                                                         *)
(* Nine specifications share the definitions: Spec (calls on one Stream), *)
(* SpecTrie (Put alone, for the trie's shape), SpecCodec (a key formatted  *)
(* and parsed back), SpecKeyOps (the methods of Key on a pair of keys),    *)
(* SpecChildIdx (getChildIdx on a bitmap and a symbol), SpecParse (NewKey  *)
(* on one ID text), SpecRace (sessions running XADD while another reads),  *)
(* SpecBlock (XREAD ... BLOCK against putting sessions) and SpecXAdd       *)
(* (sessions running XADD on a name that is not stored yet).               *)
(***************************************************************************)
EXTENDS Integers, Sequences, FiniteSets, TLC

(***************************************************************************)
(* Program constants.                                                      *)
(***************************************************************************)
KeyLen == 22
HalfLen == 11
Base == 64

(***************************************************************************)
(* Bounds of the model.  WordBits is the width of the key integers: uint64 *)
(* in the program, narrower here so that TLC can evaluate them; the        *)
(* internal key keeps its 22 base-64 symbols.  MaxPuts caps the number of  *)
(* entries, MaxRight the right numbers the callers pass.                   *)
(***************************************************************************)
WordBits == 12
MaxRight == 2
MaxPuts == 3

MaxUint64 == 2^WordBits - 1

(***************************************************************************)
(* Go slices and pointers.                                                 *)
(***************************************************************************)
At(s, i) == s[i + 1]
Slice(s, lo, hi) == SubSeq(s, lo + 1, hi)
SliceFrom(s, lo) == SubSeq(s, lo + 1, Len(s))
SetMin(S) == CHOOSE x \in S : \A y \in S : x <= y
Nil == <<>>
Ref(x) == <<x>>
Deref(p) == p[1]

(***************************************************************************)
(* keys.go                                                                 *)
(***************************************************************************)
Key(l, r) == [LeftNr |-> l, RightNr |-> r]
MaxKey == Key(MaxUint64, MaxUint64)
MinKey == Key(0, 0)

GreaterThan(k, k2) ==
    \/ k.LeftNr > k2.LeftNr
    \/ k.LeftNr = k2.LeftNr /\ k.RightNr > k2.RightNr

LesserThan(k, k2) ==
    \/ k.LeftNr < k2.LeftNr
    \/ k.LeftNr = k2.LeftNr /\ k.RightNr < k2.RightNr

IsMin(k) == k.LeftNr = 0 /\ k.RightNr = 0

IsMax(k) == k.LeftNr = MaxUint64 /\ k.RightNr = MaxUint64

(* Mutant: no carry into the left number. *)
KeyNextNoCarry(k) ==
    LET rightNr == (k.RightNr + 1) % (MaxUint64 + 1)
    IN  [key |-> Key(k.LeftNr, rightNr), overflow |-> rightNr = 0 /\ k.LeftNr = 0]

(* Key.Next: the next higher key, wrapping to (0, 0) with overflow set.     *)
KeyNext(k) ==
    LET rightNr == (k.RightNr + 1) % (MaxUint64 + 1)
        leftNr == IF rightNr = 0 THEN (k.LeftNr + 1) % (MaxUint64 + 1) ELSE k.LeftNr
    IN  [key |-> Key(leftNr, rightNr), overflow |-> rightNr = 0 /\ leftNr = 0]

(* Key.Prev: the right number is decremented with wrap-around; the left   *)
(* number is decremented when the receiver's right number is MaxUint64.    *)
KeyPrev(k) ==
    LET rightNr == (k.RightNr - 1) % (MaxUint64 + 1)
        borrow == k.RightNr = MaxUint64
        leftNr == IF borrow THEN (k.LeftNr - 1) % (MaxUint64 + 1) ELSE k.LeftNr
    IN  [key |-> Key(leftNr, rightNr), underflow |-> borrow /\ leftNr = MaxUint64]

EqualTo(k, k2) == k.LeftNr = k2.LeftNr /\ k.RightNr = k2.RightNr

(* Text is a sequence of runes. *)
Digit0 == 48
Digit9 == 57
Hyphen == 45
Star == 42
Plus == 43

(* strconv.FormatUint(val, 10) *)
RECURSIVE FormatUint(_)
FormatUint(val) ==
    IF val < 10
    THEN <<Digit0 + val>>
    ELSE Append(FormatUint(val \div 10), Digit0 + (val % 10))

(* Key.String *)
String(k) == FormatUint(k.LeftNr) \o <<Hyphen>> \o FormatUint(k.RightNr)

(* Mutant: a total equal to MaxUint64 / 10 is already an overflow. *)
addDigitToTotalStrict(total, char) ==
    LET MaxUint64base == MaxUint64 \div 10
        newBase == total * 10
        newTotal == (newBase + (char - Digit0)) % (MaxUint64 + 1)
    IN  IF char < Digit0 \/ char > Digit9
        THEN [newTotal |-> 0, err |-> TRUE]
        ELSE IF total >= MaxUint64base
        THEN [newTotal |-> 0, err |-> TRUE]
        ELSE [newTotal |-> newTotal, err |-> newTotal < newBase]

(* Mutant: the wrapped sum is returned without the newTotal < newBase test. *)
addDigitToTotalWrapped(total, char) ==
    LET MaxUint64base == MaxUint64 \div 10
        newBase == total * 10
        newTotal == (newBase + (char - Digit0)) % (MaxUint64 + 1)
    IN  IF char < Digit0 \/ char > Digit9
        THEN [newTotal |-> 0, err |-> TRUE]
        ELSE IF total > MaxUint64base
        THEN [newTotal |-> 0, err |-> TRUE]
        ELSE [newTotal |-> newTotal, err |-> FALSE]

addDigitToTotal(total, char) ==
    LET MaxUint64base == MaxUint64 \div 10
        newBase == total * 10
        newTotal == (newBase + (char - Digit0)) % (MaxUint64 + 1)
    IN  IF char < Digit0 \/ char > Digit9
        THEN [newTotal |-> 0, err |-> TRUE]
        ELSE IF total > MaxUint64base
        THEN [newTotal |-> 0, err |-> TRUE]
        ELSE [newTotal |-> newTotal, err |-> newTotal < newBase]

ParseOk(l, r) == [left |-> l, right |-> r, err |-> FALSE]
ParseErr == [left |-> 0, right |-> 0, err |-> TRUE]

(* The second loop of parseEntryKey, over the text after the hyphen. *)
RECURSIVE secondLoop(_, _, _, _)
secondLoop(rest, result1, result2, lastKeyUsed) ==
    IF Len(rest) = 0
    THEN ParseOk(result1, result2)
    ELSE IF At(rest, 0) = Star
    THEN IF result1 = lastKeyUsed.LeftNr
         THEN ParseOk(result1, (lastKeyUsed.RightNr + 1) % (MaxUint64 + 1))
         ELSE ParseOk(result1, 0)
    ELSE LET d == addDigitToTotal(result2, At(rest, 0))
         IN  IF d.err
             THEN ParseErr
             ELSE secondLoop(SliceFrom(rest, 1), result1, d.newTotal, lastKeyUsed)

(* The first loop of parseEntryKey, from rune i. *)
RECURSIVE firstLoop(_, _, _, _)
firstLoop(key, i, result1, lastKeyUsed) ==
    IF i >= Len(key)
    THEN ParseErr
    ELSE IF At(key, i) = Hyphen
    THEN secondLoop(SliceFrom(key, i + 1), result1, 0, lastKeyUsed)
    ELSE LET d == addDigitToTotal(result1, At(key, i))
         IN  IF d.err THEN ParseErr ELSE firstLoop(key, i + 1, d.newTotal, lastKeyUsed)

(* parseEntryKey; now is the clock's time.Now().UnixMilli(). *)
parseEntryKey(key, lastKeyUsed, now) ==
    IF key = <<Hyphen>>
    THEN ParseOk(0, 0)
    ELSE IF key = <<Plus>>
    THEN ParseOk(MaxUint64, MaxUint64)
    ELSE IF key = <<Star>>
    THEN ParseOk(now, IF now = lastKeyUsed.LeftNr
                      THEN (lastKeyUsed.RightNr + 1) % (MaxUint64 + 1)
                      ELSE 0)
    ELSE firstLoop(key, 0, 0, lastKeyUsed)

(* NewKey(key, targetStream), the stream's LastEntry.Key given. *)
NewKey(key, lastKeyUsed, now) ==
    LET p == parseEntryKey(key, lastKeyUsed, now)
    IN  IF p.err
        THEN [key |-> Key(0, 0), err |-> TRUE]
        ELSE [key |-> Key(p.left, p.right), err |-> FALSE]

RECURSIVE toBase64Loop(_, _, _)
toBase64Loop(buf, i, val) ==
    IF val >= Base
    THEN toBase64Loop([buf EXCEPT ![(i - 1) + 1] = val % Base], i - 1, val \div Base)
    ELSE [buf EXCEPT ![(i - 1) + 1] = val]

(* Mutant: only the least significant digit is written. *)
toBase64LowDigit(buf, val) == [buf EXCEPT ![Len(buf)] = val % Base]

toBase64(buf, val) == toBase64Loop(buf, Len(buf), val)

(* Mutant: the right number's digits come first. *)
internalReprRightFirst(k) ==
    LET buf == [i \in 1..KeyLen |-> 0]
    IN  toBase64(Slice(buf, 0, HalfLen), k.RightNr)
            \o toBase64(SliceFrom(buf, HalfLen), k.LeftNr)

internalRepr(k) ==
    LET buf == [i \in 1..KeyLen |-> 0]
    IN  toBase64(Slice(buf, 0, HalfLen), k.LeftNr)
            \o toBase64(SliceFrom(buf, HalfLen), k.RightNr)

(***************************************************************************)
(* radix.go: nodes.  bitmap is the set of the bits that are set; childCap  *)
(* is cap(children), and children = nil is <<>> with childCap = 0.         *)
(***************************************************************************)
Entry(k, v) == [Key |-> k, Val |-> v]
NilVal == "nil"

RxNode == [entry |-> Nil, bitmap |-> {}, extraChars |-> <<>>,
           children |-> <<>>, childCap |-> 0]

(* A uint64 bitmap is the set of its bits that are 1, bit 0 the lowest.    *)
BitmapBits == 64
AllOnes == 0..(BitmapBits - 1)

(* x >> k on a uint64: the bits below k fall off; a count of 64 or more    *)
(* leaves 0.                                                               *)
ShiftRight(x, k) == {b - k : b \in {c \in x : c >= k}}

(* bits.OnesCount64 *)
OnesCount64(x) == Cardinality(x)

(* Mutant: the mask reaches the bit of bitmapOffset itself. *)
getChildIdxStepsInclusive(bitmap, bitmapOffset) ==
    IF bitmapOffset = 0
    THEN [idx |-> 0, shifts |-> {}]
    ELSE LET count == BitmapBits - 1 - bitmapOffset
             onesCountBitmask == ShiftRight(AllOnes, count)
         IN  [idx |-> OnesCount64(bitmap \cap onesCountBitmask), shifts |-> {count}]

(* getChildIdx, with the shift counts it evaluates. *)
getChildIdxSteps(bitmap, bitmapOffset) ==
    IF bitmapOffset = 0
    THEN [idx |-> 0, shifts |-> {}]
    ELSE LET count == BitmapBits - bitmapOffset
             onesCountBitmask == ShiftRight(AllOnes, count)
         IN  [idx |-> OnesCount64(bitmap \cap onesCountBitmask), shifts |-> {count}]

getChildIdx(bitmap, bitmapOffset) == getChildIdxSteps(bitmap, bitmapOffset).idx

RECURSIVE NodeAt(_, _)
NodeAt(n, path) ==
    IF path = <<>> THEN n
    ELSE NodeAt(At(n.children, Head(path)), Tail(path))

RECURSIVE SetNodeAt(_, _, _)
SetNodeAt(n, path, new) ==
    IF path = <<>> THEN new
    ELSE [n EXCEPT !.children[Head(path) + 1] =
              SetNodeAt(At(n.children, Head(path)), Tail(path), new)]

RECURSIVE lcpLoop(_, _, _, _)
lcpLoop(currentNode, key, depth0, path) ==
    LET extra == currentNode.extraChars
        miss == {i \in 0..(Len(extra) - 1) : At(extra, i) # At(key, depth0 + i)}
        depth == depth0 + Len(extra)
    IN  IF miss # {}
        THEN [bestMatch |-> path, failIdx |-> depth0 + SetMin(miss),
              extraFailIdx |-> SetMin(miss)]
        ELSE IF depth = Len(key)
        THEN [bestMatch |-> path, failIdx |-> -1, extraFailIdx |-> -1]
        ELSE IF At(key, depth) \notin currentNode.bitmap
        THEN [bestMatch |-> path, failIdx |-> depth, extraFailIdx |-> -1]
        ELSE LET childIdx == getChildIdx(currentNode.bitmap, At(key, depth))
             IN  lcpLoop(At(currentNode.children, childIdx), key, depth + 1,
                         Append(path, childIdx))

(* Mutant: a failure inside the extra symbols is reported as a failure at *)
(* the children.                                                          *)
longestCommonPrefixNoExtra(n, key) == [lcpLoop(n, key, 0, <<>>) EXCEPT !.extraFailIdx = -1]

longestCommonPrefix(n, key) == lcpLoop(n, key, 0, <<>>)

InsertAt(s, i, x) == Slice(s, 0, i) \o <<x>> \o SliceFrom(s, i)

(* Mutant: the grown slice is allocated but the old children are not copied. *)
appendChildNoCopy(n, childIdx) ==
    IF n.children = <<>> /\ n.childCap = 0
    THEN [n EXCEPT !.children = <<RxNode>>, !.childCap = 1]
    ELSE [n EXCEPT !.children = [i \in 1..(Len(n.children) + 1) |-> RxNode],
                   !.childCap = n.childCap + 2]

(* Mutant: room is made for two children. *)
appendChildExtra(n, childIdx) ==
    [n EXCEPT !.children = InsertAt(InsertAt(n.children, childIdx, RxNode), childIdx, RxNode),
              !.childCap = n.childCap + 2]

appendChild(n, childIdx) ==
    IF n.children = <<>> /\ n.childCap = 0
    THEN [n EXCEPT !.children = <<RxNode>>, !.childCap = 1]
    ELSE IF Len(n.children) + 1 > n.childCap
    THEN [n EXCEPT !.children = InsertAt(n.children, childIdx, RxNode),
                   !.childCap = n.childCap + 2]
    ELSE [n EXCEPT !.children = InsertAt(n.children, childIdx, RxNode)]

(* Mutant: the split node keeps the symbol the split happened at. *)
createSplitKeepsSymbol(n, key) ==
    LET lcp == longestCommonPrefix(n, key)
        node == NodeAt(n, lcp.bestMatch)
        failIdx == lcp.failIdx
        extraFailIdx == lcp.extraFailIdx
        lastPartOfKey == SliceFrom(key, failIdx + 1)
        newNodeVal == IF Len(lastPartOfKey) > 0
                      THEN [RxNode EXCEPT !.extraChars = lastPartOfKey]
                      ELSE RxNode
    IN  IF failIdx = -1
        THEN [root |-> n, newNode |-> lcp.bestMatch]
        ELSE IF extraFailIdx = -1
        THEN LET bitmapOffset == At(key, failIdx)
                 bitmap == node.bitmap \cup {bitmapOffset}
                 childIdx == getChildIdx(bitmap, bitmapOffset)
                 grown == appendChild([node EXCEPT !.bitmap = bitmap], childIdx)
             IN  [root |-> SetNodeAt(n, lcp.bestMatch,
                               [grown EXCEPT !.children[childIdx + 1] = newNodeVal]),
                  newNode |-> Append(lcp.bestMatch, childIdx)]
        ELSE LET splitNode == [node EXCEPT
                                  !.extraChars = SliceFrom(node.extraChars, extraFailIdx)]
                 splitNodeOffset == At(node.extraChars, extraFailIdx)
                 newNodeOffset == At(key, failIdx)
                 newIdx == IF newNodeOffset > splitNodeOffset THEN 1 ELSE 0
                 children == IF newNodeOffset > splitNodeOffset
                             THEN <<splitNode, newNodeVal>>
                             ELSE <<newNodeVal, splitNode>>
             IN  [root |-> SetNodeAt(n, lcp.bestMatch,
                               [entry |-> Nil,
                                bitmap |-> {splitNodeOffset} \cup {newNodeOffset},
                                extraChars |-> Slice(node.extraChars, 0, extraFailIdx),
                                children |-> children,
                                childCap |-> 2]),
                  newNode |-> Append(lcp.bestMatch, newIdx)]

(* create returns the tree after the insertion and the pointer (path) to   *)
(* the node that satisfies key.                                            *)
create(n, key) ==
    LET lcp == longestCommonPrefix(n, key)
        node == NodeAt(n, lcp.bestMatch)
        failIdx == lcp.failIdx
        extraFailIdx == lcp.extraFailIdx
        lastPartOfKey == SliceFrom(key, failIdx + 1)
        newNodeVal == IF Len(lastPartOfKey) > 0
                      THEN [RxNode EXCEPT !.extraChars = lastPartOfKey]
                      ELSE RxNode
    IN  IF failIdx = -1
        THEN [root |-> n, newNode |-> lcp.bestMatch]
        ELSE IF extraFailIdx = -1
        THEN LET bitmapOffset == At(key, failIdx)
                 bitmap == node.bitmap \cup {bitmapOffset}
                 childIdx == getChildIdx(bitmap, bitmapOffset)
                 grown == appendChild([node EXCEPT !.bitmap = bitmap], childIdx)
             IN  [root |-> SetNodeAt(n, lcp.bestMatch,
                               [grown EXCEPT !.children[childIdx + 1] = newNodeVal]),
                  newNode |-> Append(lcp.bestMatch, childIdx)]
        ELSE LET splitNode == [node EXCEPT
                                  !.extraChars = SliceFrom(node.extraChars, extraFailIdx + 1)]
                 splitNodeOffset == At(node.extraChars, extraFailIdx)
                 newNodeOffset == At(key, failIdx)
                 newIdx == IF newNodeOffset > splitNodeOffset THEN 1 ELSE 0
                 children == IF newNodeOffset > splitNodeOffset
                             THEN <<splitNode, newNodeVal>>
                             ELSE <<newNodeVal, splitNode>>
             IN  [root |-> SetNodeAt(n, lcp.bestMatch,
                               [entry |-> Nil,
                                bitmap |-> {splitNodeOffset} \cup {newNodeOffset},
                                extraChars |-> Slice(node.extraChars, 0, extraFailIdx),
                                children |-> children,
                                childCap |-> 2]),
                  newNode |-> Append(lcp.bestMatch, newIdx)]

(***************************************************************************)
(* radix.go: range traversal.  A []*RxNode of nodes that are only read is  *)
(* the sequence of the nodes; a result is [panic, ...] where panic is a Go *)
(* runtime error (slice bounds out of range, nil dereference).             *)
(***************************************************************************)
Reverse(s) == [i \in 1..Len(s) |-> s[Len(s) + 1 - i]]

(* appendPtrs appends &elem of the range variable: a pointer to a copy of   *)
(* each element, one per iteration (the module is built with Go >= 1.22,   *)
(* which its range-over-int loops need).  The copies are only read.        *)
appendPtrs(ptrSlice, slice) == ptrSlice \o slice

(* Mutant: the slice is appended in its own order. *)
appendPtrsForward(ptrSlice, slice) == ptrSlice \o slice

appendPtrsReverse(ptrSlice, slice) == ptrSlice \o Reverse(slice)

(* Mutant: the first pointer is taken, not the last. *)
popFirst(s) == [rest |-> SliceFrom(s, 1), val |-> At(s, 0)]

pop(s) == [rest |-> Slice(s, 0, Len(s) - 1), val |-> At(s, Len(s) - 1)]

RECURSIVE getAllLeavesLoop(_, _)
getAllLeavesLoop(nodeStack, entries) ==
    IF Len(nodeStack) > 0
    THEN LET p == pop(nodeStack)
         IN  IF p.val.entry # Nil
             THEN getAllLeavesLoop(p.rest, Append(entries, Deref(p.val.entry)))
             ELSE getAllLeavesLoop(appendPtrsReverse(p.rest, p.val.children), entries)
    ELSE entries

getAllLeaves(n) == getAllLeavesLoop(<<n>>, <<>>)

RECURSIVE ConcatLeaves(_)
ConcatLeaves(nodes) ==
    IF nodes = <<>> THEN <<>>
    ELSE getAllLeaves(Head(nodes)) \o ConcatLeaves(Tail(nodes))

Ok(x) == [panic |-> FALSE, val |-> x]
Panic == [panic |-> TRUE, val |-> <<>>]

RECURSIVE higherSiblingsLoop(_, _, _, _)
higherSiblingsLoop(currentNode, key, depth0, result) ==
    LET extra == currentNode.extraChars
        diff == {ii \in 0..(Len(extra) - 1) : At(extra, ii) # At(key, depth0 + ii)}
        depth == depth0 + Len(extra)
    IN  IF diff # {}
        THEN IF At(extra, SetMin(diff)) < At(key, depth0 + SetMin(diff))
             THEN result
             ELSE Append(result, currentNode)
        ELSE IF depth = Len(key)
        THEN Append(result, currentNode)
        ELSE LET bitmapOffset == At(key, depth)
                 childIdx == getChildIdx(currentNode.bitmap, bitmapOffset)
             IN  IF bitmapOffset \notin currentNode.bitmap
                 THEN appendPtrsReverse(result, SliceFrom(currentNode.children, childIdx))
                 ELSE higherSiblingsLoop(
                          At(currentNode.children, childIdx), key, depth + 1,
                          appendPtrsReverse(result,
                              SliceFrom(currentNode.children, childIdx + 1)))

higherSiblingsDFS(n, key) == higherSiblingsLoop(n, key, 0, <<>>)

RECURSIVE lowerSiblingsLoop(_, _, _, _)
lowerSiblingsLoop(currentNode, key, depth0, result) ==
    LET extra == currentNode.extraChars
        diff == {ii \in 0..(Len(extra) - 1) : At(extra, ii) # At(key, depth0 + ii)}
        depth == depth0 + Len(extra)
    IN  IF diff # {}
        THEN IF At(extra, SetMin(diff)) > At(key, depth0 + SetMin(diff))
             THEN Ok(result)
             ELSE Ok(Append(result, currentNode))
        ELSE IF depth = Len(key)
        THEN Ok(Append(result, currentNode))
        ELSE LET bitmapOffset == At(key, depth)
                 childIdx == getChildIdx(currentNode.bitmap, bitmapOffset)
             IN  IF bitmapOffset \notin currentNode.bitmap
                 THEN IF childIdx - 1 < 0 \/ childIdx - 1 > currentNode.childCap
                      THEN Panic
                      ELSE Ok(appendPtrs(result,
                                  Slice(currentNode.children, 0, childIdx - 1)))
                 ELSE lowerSiblingsLoop(
                          At(currentNode.children, childIdx), key, depth + 1,
                          appendPtrs(result, Slice(currentNode.children, 0, childIdx)))

lowerSiblingsDFS(n, key) == lowerSiblingsLoop(n, key, 0, <<>>)

(* Mutant: the nodes are read front to back, highest first. *)
higherEntriesForward(n, key) == Ok(ConcatLeaves(higherSiblingsDFS(n, key)))

higherEntries(n, key) == Ok(ConcatLeaves(Reverse(higherSiblingsDFS(n, key))))

lowerEntries(n, key) ==
    LET lowerNodes == lowerSiblingsDFS(n, key)
    IN  IF lowerNodes.panic THEN Panic ELSE Ok(ConcatLeaves(lowerNodes.val))

ChildrenOf(currentNode, present) ==
    [j \in 1..Cardinality(present) |->
        At(currentNode.children,
           getChildIdx(currentNode.bitmap,
               CHOOSE i \in present : Cardinality({x \in present : x < i}) = j - 1))]

(* Mutant: the loop over the children between the two symbols runs up to   *)
(* and including toKey's symbol.                                           *)
RangeMiddleInclusive(currentNode, lo, hi) ==
    ConcatLeaves(ChildrenOf(currentNode,
        {i \in (lo + 1)..hi : i \in currentNode.bitmap}))

(* The loop of rangeEntries over the children strictly between the symbols *)
(* of fromKey and toKey, lowest first.                                     *)
RangeMiddle(currentNode, lo, hi) ==
    ConcatLeaves(ChildrenOf(currentNode,
        {i \in (lo + 1)..(hi - 1) : i \in currentNode.bitmap}))

RECURSIVE rangeEntriesLoop(_, _, _, _)
rangeEntriesLoop(currentNode, fromKey, toKey, depth0) ==
    LET extra == currentNode.extraChars
        stop == {i \in 0..(Len(extra) - 1) :
                    ~(At(fromKey, depth0 + i) = At(toKey, depth0 + i)
                      /\ At(toKey, depth0 + i) = At(extra, i))}
        depth == depth0 + Len(extra)
    IN  IF stop # {}
        THEN LET i == SetMin(stop)
                 char == At(extra, i)
                 fromKeySymbol == At(fromKey, depth0 + i)
                 toKeySymbol == At(toKey, depth0 + i)
             IN  IF fromKeySymbol = toKeySymbol
                 THEN Ok(<<>>)
                 ELSE IF fromKeySymbol < char /\ char < toKeySymbol
                 THEN Ok(getAllLeaves(currentNode))
                 ELSE IF char < fromKeySymbol \/ toKeySymbol < char
                 THEN Ok(<<>>)
                 ELSE IF char = fromKeySymbol
                 THEN higherEntries(currentNode, SliceFrom(fromKey, depth0))
                 ELSE lowerEntries(currentNode, SliceFrom(toKey, depth0))
        ELSE IF depth = Len(fromKey)
        THEN IF currentNode.entry = Nil THEN Panic
             ELSE Ok(<<Deref(currentNode.entry)>>)
        ELSE IF At(fromKey, depth) = At(toKey, depth)
        THEN IF At(toKey, depth) \notin currentNode.bitmap
             THEN Ok(<<>>)
             ELSE rangeEntriesLoop(
                      At(currentNode.children,
                         getChildIdx(currentNode.bitmap, At(toKey, depth))),
                      fromKey, toKey, depth + 1)
        ELSE LET fromPart ==
                     IF At(fromKey, depth) \in currentNode.bitmap
                     THEN higherEntries(
                              At(currentNode.children,
                                 getChildIdx(currentNode.bitmap, At(fromKey, depth))),
                              SliceFrom(fromKey, depth + 1))
                     ELSE Ok(<<>>)
                 middle == RangeMiddle(currentNode, At(fromKey, depth), At(toKey, depth))
                 toPart ==
                     IF At(toKey, depth) \in currentNode.bitmap
                     THEN lowerEntries(
                              At(currentNode.children,
                                 getChildIdx(currentNode.bitmap, At(toKey, depth))),
                              SliceFrom(toKey, depth + 1))
                     ELSE Ok(<<>>)
             IN  IF fromPart.panic \/ toPart.panic
                 THEN Panic
                 ELSE Ok(fromPart.val \o middle \o toPart.val)

rangeEntries(n, fromKey, toKey) == rangeEntriesLoop(n, fromKey, toKey, 0)

(***************************************************************************)
(* The Stream object.                                                      *)
(***************************************************************************)
VARIABLES root, LastEntry, cmpMap, ret

(* State of the other specifications of this module: kc is the key being   *)
(* formatted and parsed (SpecCodec); sess holds the sessions' positions    *)
(* and locals, db the streams of the value database, chans the channels    *)
(* (SpecRace, SpecBlock). Spec leaves them at their initial values.        *)
VARIABLES kc, sess, db, chans

otherVars == <<kc, sess, db, chans>>

vars == <<root, LastEntry, cmpMap, ret, kc, sess, db, chans>>

(* The keys and payloads the callers pass: MinKey, MaxKey, and keys that   *)
(* differ in the left number (symbol 10) and in the right one (symbol 21). *)
LeftNrs == {0, 1}
RightNrs == 0..MaxRight
Keys == {Key(l, r) : l \in LeftNrs, r \in RightNrs} \cup {MaxKey}
Vals == {"a", "b"}

NoRet == [op |-> "none", key |-> MinKey, toKey |-> MinKey, val |-> NilVal,
          err |-> FALSE, found |-> FALSE, panic |-> FALSE, entries |-> <<>>,
          keyArg |-> ""]

Init ==
    /\ root = RxNode
    /\ LastEntry = Entry(MinKey, NilVal)
    /\ cmpMap = {}
    /\ ret = NoRet
    /\ kc = <<>>
    /\ sess = <<>>
    /\ db = <<>>
    /\ chans = <<>>

(* Mutant: a key equal to the last one is accepted. *)
PutRejectsLower(key) == IsMin(key) \/ LesserThan(key, LastEntry.Key)

(* Mutant: only the minimum key is rejected. *)
PutRejectsMin(key) == IsMin(key)

PutRejects(key) == IsMin(key) \/ ~GreaterThan(key, LastEntry.Key)

(* The entry Put leaves in LastEntry: a copy of the leaf's entry. Mutant:  *)
(* only the key is recorded.                                               *)
lastEntryKeyOnly(entry) == [LastEntry EXCEPT !.Key = entry.Key]

lastEntryOf(entry) == entry

Put(key, val) ==
    /\ ret.op = "none"
    /\ IF PutRejects(key)
       THEN /\ ret' = [NoRet EXCEPT !.op = "Put", !.key = key, !.val = val, !.err = TRUE]
            /\ UNCHANGED <<root, LastEntry, cmpMap>>
       ELSE LET c == create(root, internalRepr(key))
                newNode == NodeAt(c.root, c.newNode)
                entry == IF newNode.entry = Nil
                         THEN Entry(key, val)
                         ELSE [Deref(newNode.entry) EXCEPT !.Key = key, !.Val = val]
            IN  /\ Cardinality(cmpMap) < MaxPuts
                /\ root' = SetNodeAt(c.root, c.newNode, [newNode EXCEPT !.entry = Ref(entry)])
                /\ LastEntry' = lastEntryOf(entry)
                /\ cmpMap' = {e \in cmpMap : e.Key # key} \cup {Entry(key, val)}
                /\ ret' = [NoRet EXCEPT !.op = "Put", !.key = key, !.val = val]
    /\ UNCHANGED otherVars

(* Mutant: the failure index of the walk is ignored, the entry of the best *)
(* match is reported.                                                      *)
SearchResultBestMatch(key) ==
    LET lcp == longestCommonPrefix(root, internalRepr(key))
        node == NodeAt(root, lcp.bestMatch)
    IN  IF node.entry = Nil
        THEN [panic |-> FALSE, val |-> NilVal, found |-> FALSE]
        ELSE [panic |-> FALSE, val |-> Deref(node.entry).Val, found |-> TRUE]

SearchResult(key) ==
    LET lcp == longestCommonPrefix(root, internalRepr(key))
        node == NodeAt(root, lcp.bestMatch)
    IN  IF lcp.failIdx = -1
        THEN IF node.entry = Nil
             THEN [panic |-> TRUE, val |-> NilVal, found |-> FALSE]
             ELSE [panic |-> FALSE, val |-> Deref(node.entry).Val, found |-> TRUE]
        ELSE [panic |-> FALSE, val |-> NilVal, found |-> FALSE]

Search(key) ==
    /\ ret.op = "none"
    /\ LET r == SearchResult(key)
       IN  ret' = [NoRet EXCEPT !.op = "Search", !.key = key, !.val = r.val,
                                !.found = r.found, !.panic = r.panic]
    /\ UNCHANGED <<root, LastEntry, cmpMap>>
    /\ UNCHANGED otherVars

(* Stream.Range on the trie with root rt. *)
StreamRange(rt, fromKey, toKey) ==
    IF ~LesserThan(fromKey, toKey)
    THEN Ok(<<>>)
    ELSE IF IsMax(toKey)
    THEN higherEntries(rt, internalRepr(fromKey))
    ELSE rangeEntries(rt, internalRepr(fromKey), internalRepr(toKey))

RangeResult(fromKey, toKey) == StreamRange(root, fromKey, toKey)

Range(fromKey, toKey) ==
    /\ ret.op = "none"
    /\ LET r == RangeResult(fromKey, toKey)
       IN  ret' = [NoRet EXCEPT !.op = "Range", !.key = fromKey, !.toKey = toKey,
                                !.entries = r.val, !.panic = r.panic]
    /\ UNCHANGED <<root, LastEntry, cmpMap>>
    /\ UNCHANGED otherVars

(* XREAD's key argument for one stream: "$" or the text of a key; the key  *)
(* below MaxKey is the one whose Next is MaxKey.                           *)
XReadKeys == Keys \cup {Key(MaxUint64, MaxUint64 - 1)}
XReadArgs == {[dollar |-> FALSE, key |-> k] : k \in XReadKeys}
                 \cup {[dollar |-> TRUE, key |-> MinKey]}

xreadFromKey(arg) == IF arg.dollar THEN LastEntry.Key ELSE arg.key

(* doXREAD's result for one stream (no BLOCK). *)
doXREADResult(arg) ==
    LET fromKey == xreadFromKey(arg)
    IN  IF GreaterThan(LastEntry.Key, fromKey)
        THEN IF KeyNext(fromKey).overflow
             THEN Ok(<<>>)
             ELSE RangeResult(KeyNext(fromKey).key, MaxKey)
        ELSE Ok(<<>>)

(* collectXREAD's result for one stream. *)
collectXREADResult(arg) ==
    LET fromKey == xreadFromKey(arg)
    IN  IF KeyNext(fromKey).overflow
        THEN Ok(<<>>)
        ELSE RangeResult(KeyNext(fromKey).key, MaxKey)

doXREAD(arg) ==
    /\ ret.op = "none"
    /\ LET r == doXREADResult(arg)
       IN  ret' = [NoRet EXCEPT !.op = "doXREAD", !.key = xreadFromKey(arg),
                                !.keyArg = IF arg.dollar THEN "$" ELSE "key",
                                !.entries = r.val, !.panic = r.panic]
    /\ UNCHANGED <<root, LastEntry, cmpMap>>
    /\ UNCHANGED otherVars

collectXREAD(arg) ==
    /\ ret.op = "none"
    /\ LET r == collectXREADResult(arg)
       IN  ret' = [NoRet EXCEPT !.op = "collectXREAD", !.key = xreadFromKey(arg),
                                !.keyArg = IF arg.dollar THEN "$" ELSE "key",
                                !.entries = r.val, !.panic = r.panic]
    /\ UNCHANGED <<root, LastEntry, cmpMap>>
    /\ UNCHANGED otherVars

Return ==
    /\ ret.op # "none"
    /\ ret' = NoRet
    /\ UNCHANGED <<root, LastEntry, cmpMap>>
    /\ UNCHANGED otherVars

Next ==
    \/ \E key \in Keys, val \in Vals : Put(key, val)
    \/ \E key \in Keys : Search(key)
    \/ \E fromKey \in Keys, toKey \in Keys : Range(fromKey, toKey)
    \/ \E arg \in XReadArgs : doXREAD(arg)
    \/ \E arg \in XReadArgs : collectXREAD(arg)
    \/ Return

Spec == Init /\ [][Next]_vars

(***************************************************************************)
(* SpecTrie: the Stream under Put alone, for the properties of the trie's  *)
(* shape.                                                                  *)
(***************************************************************************)
NextTrie ==
    \/ \E key \in Keys, val \in Vals : Put(key, val)
    \/ Return

SpecTrie == Init /\ [][NextTrie]_vars

(***************************************************************************)
(* SpecCodec: a key is formatted with String and the text is parsed back   *)
(* with NewKey against a stream's last key (TestKeyGenBasic).              *)
(***************************************************************************)
(* The numbers around the limits of addDigitToTotal, paired with every     *)
(* number of the word.                                                     *)
EdgeNrs == {0, 9, 10, MaxUint64 \div 10, (MaxUint64 \div 10) + 1, MaxUint64}
AllNrs == 0..MaxUint64
CodecLastKeys == {MinKey, MaxKey}
CodecNow == 1

InitCodec ==
    /\ root = RxNode
    /\ LastEntry = Entry(MinKey, NilVal)
    /\ cmpMap = {}
    /\ ret = NoRet
    /\ sess = <<>>
    /\ db = <<>>
    /\ chans = <<>>
    /\ \E n \in AllNrs, e \in EdgeNrs, edgeLeft \in BOOLEAN, last \in CodecLastKeys :
           kc = [stage |-> "key",
                 keyFromInt |-> IF edgeLeft THEN Key(e, n) ELSE Key(n, e),
                 last |-> last, text |-> <<>>, keyFromStr |-> MinKey, err |-> FALSE]

KeyToString ==
    /\ kc.stage = "key"
    /\ kc' = [kc EXCEPT !.stage = "text", !.text = String(kc.keyFromInt)]
    /\ UNCHANGED <<root, LastEntry, cmpMap, ret, sess, db, chans>>

StringToKey ==
    /\ kc.stage = "text"
    /\ LET r == NewKey(kc.text, kc.last, CodecNow)
       IN  kc' = [kc EXCEPT !.stage = "parsed", !.keyFromStr = r.key, !.err = r.err]
    /\ UNCHANGED <<root, LastEntry, cmpMap, ret, sess, db, chans>>

NextCodec ==
    \/ KeyToString
    \/ StringToKey

SpecCodec == InitCodec /\ [][NextCodec]_vars

(***************************************************************************)
(* SpecKeyOps: the methods of Key applied to a pair of keys, as the key    *)
(* tests do: both keys are encoded with internalRepr, and the first is     *)
(* stepped with Next and Prev.  The numbers are those around the base-64   *)
(* digit boundaries and the limits of the word.                            *)
(***************************************************************************)
OpNrs == {0, 1, Base - 1, Base, 2 * Base - 1, MaxUint64 - 1, MaxUint64}

InitKeyOps ==
    /\ root = RxNode
    /\ LastEntry = Entry(MinKey, NilVal)
    /\ cmpMap = {}
    /\ ret = NoRet
    /\ sess = <<>>
    /\ db = <<>>
    /\ chans = <<>>
    /\ \E al \in OpNrs, ar \in OpNrs, bl \in OpNrs, br \in OpNrs :
           kc = [stage |-> "keys", a |-> Key(al, ar), b |-> Key(bl, br),
                 reprA |-> <<>>, reprB |-> <<>>,
                 next |-> [key |-> MinKey, overflow |-> FALSE],
                 prev |-> [key |-> MinKey, underflow |-> FALSE]]

KeyInternalRepr ==
    /\ kc.stage = "keys"
    /\ kc' = [kc EXCEPT !.stage = "repr",
                        !.reprA = internalRepr(kc.a),
                        !.reprB = internalRepr(kc.b)]
    /\ UNCHANGED <<root, LastEntry, cmpMap, ret, sess, db, chans>>

KeyStepNext ==
    /\ kc.stage = "keys"
    /\ kc' = [kc EXCEPT !.stage = "next", !.next = KeyNext(kc.a)]
    /\ UNCHANGED <<root, LastEntry, cmpMap, ret, sess, db, chans>>

KeyStepPrev ==
    /\ kc.stage \in {"keys", "next"}
    /\ kc' = [kc EXCEPT !.stage = IF kc.stage = "keys" THEN "prev" ELSE "nextprev",
                        !.prev = KeyPrev(IF kc.stage = "keys" THEN kc.a ELSE kc.next.key)]
    /\ UNCHANGED <<root, LastEntry, cmpMap, ret, sess, db, chans>>

NextKeyOps ==
    \/ KeyInternalRepr
    \/ KeyStepNext
    \/ KeyStepPrev

SpecKeyOps == InitKeyOps /\ [][NextKeyOps]_vars

(***************************************************************************)
(* SpecChildIdx: getChildIdx applied to a bitmap and a symbol.  The        *)
(* bitmaps are those over the lowest, the middle and the highest bits.     *)
(***************************************************************************)
BitmapSyms == {0, 1, 2, 31, 32, 62, 63}

InitChildIdx ==
    /\ root = RxNode
    /\ LastEntry = Entry(MinKey, NilVal)
    /\ cmpMap = {}
    /\ ret = NoRet
    /\ sess = <<>>
    /\ db = <<>>
    /\ chans = <<>>
    /\ \E bitmap \in SUBSET BitmapSyms, bitmapOffset \in 0..(Base - 1) :
           kc = [stage |-> "args", bitmap |-> bitmap, bitmapOffset |-> bitmapOffset,
                 idx |-> 0, shifts |-> {}]

CallGetChildIdx ==
    /\ kc.stage = "args"
    /\ LET r == getChildIdxSteps(kc.bitmap, kc.bitmapOffset)
       IN  kc' = [kc EXCEPT !.stage = "idx",
                           !.idx = getChildIdx(kc.bitmap, kc.bitmapOffset),
                           !.shifts = r.shifts]
    /\ UNCHANGED <<root, LastEntry, cmpMap, ret, sess, db, chans>>

NextChildIdx == CallGetChildIdx

SpecChildIdx == InitChildIdx /\ [][NextChildIdx]_vars

(***************************************************************************)
(* SpecParse: NewKey applied to one ID text, against the stream's last key *)
(* and the reading of the clock.  The texts are a left part and a right    *)
(* part around a hyphen, or one part without a hyphen; the parts are       *)
(* decimal numbers up to and beyond the word, wildcards, and parts holding *)
(* a rune that is no digit.                                                *)
(***************************************************************************)
Slash == 47
Colon == 58
LetterA == 97
Digit5 == 53

ParseNrs == {0, 5, 6, MaxUint64 \div 10, (MaxUint64 \div 10) + 1,
             MaxUint64 - 1, MaxUint64, MaxUint64 + 1, MaxUint64 + 5,
             10 * MaxUint64, 10 * (MaxUint64 + 1) + 5}
DigitTexts == {FormatUint(n) : n \in ParseNrs}
                  \cup {<<>>, <<Digit0, Digit0>> \o FormatUint(5)}
BadRunes == {Slash, Colon, LetterA}
BadTexts == UNION {{<<b>>, <<b, Digit5>>, <<Digit5, b>>} : b \in BadRunes}
StarTexts == {<<Star>>, <<Star, Digit5>>, <<Digit5, Star>>, <<Star, Star>>}
                 \cup {<<Star, b>> : b \in BadRunes}
LeftTexts == DigitTexts \cup BadTexts \cup {<<Star>>}
RightTexts == DigitTexts \cup BadTexts \cup StarTexts
                  \cup {<<Digit5, Hyphen, Digit5>>}
ParseLastKeys == {MinKey, Key(5, 5), Key(5, MaxUint64), MaxKey}
ParseNows == {4, 5, 6}

InitParse ==
    /\ root = RxNode
    /\ LastEntry = Entry(MinKey, NilVal)
    /\ cmpMap = {}
    /\ ret = NoRet
    /\ sess = <<>>
    /\ db = <<>>
    /\ chans = <<>>
    /\ \E text \in {<<Hyphen>>, <<Plus>>}
                     \cup (LeftTexts \cup StarTexts)
                     \cup {l \o <<Hyphen>> \o r : l \in LeftTexts, r \in RightTexts},
          last \in ParseLastKeys, now \in ParseNows :
           kc = [stage |-> "text", text |-> text, last |-> last, now |-> now,
                 key |-> MinKey, err |-> FALSE]

ParseNewKey ==
    /\ kc.stage = "text"
    /\ LET r == NewKey(kc.text, kc.last, kc.now)
       IN  kc' = [kc EXCEPT !.stage = "parsed", !.key = r.key, !.err = r.err]
    /\ UNCHANGED <<root, LastEntry, cmpMap, ret, sess, db, chans>>

NextParse == ParseNewKey

SpecParse == InitParse /\ [][NextParse]_vars

(***************************************************************************)
(* SpecRace: sessions of concurrent connections (one goroutine each) run   *)
(* XADD against one stream of the value database while another session     *)
(* reads it. Stream.Put takes no lock, so each of its statements is a step *)
(* of its own; create, one call, is one step.                              *)
(***************************************************************************)
Writers == {"w1", "w2"}
Readers == {"r1"}

(* The ID argument of XADD: "*", "0-1" or "1-0"; the clock reads 1 ms. *)
XAddIds == {<<Star>>, String(Key(0, 1)), String(Key(1, 0))}
RaceNow == 1
RaceKeys == {Key(0, 1), Key(1, 0), Key(1, 1)}

(* The field-value pairs of each session's entry. *)
XAddVal(w) == IF w = "w1" THEN "a" ELSE "b"

IdleWriter == [pc |-> "idle", key |-> MinKey, newNode |-> <<>>,
               err |-> FALSE, replied |-> FALSE]
IdleReader == [pc |-> "idle", op |-> "none", key |-> MinKey, toKey |-> MinKey,
               val |-> NilVal, found |-> FALSE, panic |-> FALSE, entries |-> <<>>]

InitRace ==
    /\ root = RxNode
    /\ LastEntry = Entry(MinKey, NilVal)
    /\ cmpMap = {}
    /\ ret = NoRet
    /\ kc = <<>>
    /\ db = <<>>
    /\ chans = <<>>
    /\ sess = [p \in Writers \cup Readers |->
                  IF p \in Writers THEN IdleWriter ELSE IdleReader]

(* doXADD up to the ID: the stream is loaded and the ID parsed against its *)
(* last key; an unparsable ID and 0-0 are refused.                         *)
XAddNewKey(w, id) ==
    /\ sess[w].pc = "idle"
    /\ LET streamEntryKey == NewKey(id, LastEntry.Key, RaceNow)
       IN  IF streamEntryKey.err \/ streamEntryKey.key = Key(0, 0)
           THEN sess' = [sess EXCEPT ![w].pc = "done", ![w].err = TRUE]
           ELSE sess' = [sess EXCEPT ![w].pc = "check", ![w].key = streamEntryKey.key]
    /\ UNCHANGED <<root, LastEntry, cmpMap, ret, kc, db, chans>>

(* doXADD's comparison of the ID with the stream's last key. *)
XAddCheck(w) ==
    /\ sess[w].pc = "check"
    /\ IF ~GreaterThan(sess[w].key, LastEntry.Key)
       THEN sess' = [sess EXCEPT ![w].pc = "done", ![w].err = TRUE]
       ELSE sess' = [sess EXCEPT ![w].pc = "put"]
    /\ UNCHANGED <<root, LastEntry, cmpMap, ret, kc, db, chans>>

(* Stream.Put, its key test: the error it returns is dropped by doXADD. *)
PutCheck(w) ==
    /\ sess[w].pc = "put"
    /\ IF PutRejects(sess[w].key)
       THEN sess' = [sess EXCEPT ![w].pc = "reply"]
       ELSE sess' = [sess EXCEPT ![w].pc = "create"]
    /\ UNCHANGED <<root, LastEntry, cmpMap, ret, kc, db, chans>>

(* Stream.Put: newNode := s.root.create(key.internalRepr()) *)
PutCreate(w) ==
    /\ sess[w].pc = "create"
    /\ LET c == create(root, internalRepr(sess[w].key))
       IN  /\ root' = c.root
           /\ sess' = [sess EXCEPT ![w].pc = "entry", ![w].newNode = c.newNode]
    /\ UNCHANGED <<LastEntry, cmpMap, ret, kc, db, chans>>

(* Stream.Put: the entry is written through the pointer create returned. *)
PutEntry(w) ==
    /\ sess[w].pc = "entry"
    /\ LET newNode == NodeAt(root, sess[w].newNode)
           entry == IF newNode.entry = Nil
                    THEN Entry(sess[w].key, XAddVal(w))
                    ELSE [Deref(newNode.entry) EXCEPT !.Key = sess[w].key,
                                                      !.Val = XAddVal(w)]
       IN  root' = SetNodeAt(root, sess[w].newNode, [newNode EXCEPT !.entry = Ref(entry)])
    /\ sess' = [sess EXCEPT ![w].pc = "last"]
    /\ UNCHANGED <<LastEntry, cmpMap, ret, kc, db, chans>>

(* Stream.Put: s.LastEntry = *newNode.entry; a nil entry (another session  *)
(* split the node meanwhile) is a nil dereference.                         *)
PutLast(w) ==
    /\ sess[w].pc = "last"
    /\ LET newNode == NodeAt(root, sess[w].newNode)
       IN  IF newNode.entry = Nil
           THEN /\ sess' = [sess EXCEPT ![w].pc = "panic"]
                /\ UNCHANGED LastEntry
           ELSE /\ LastEntry' = lastEntryOf(Deref(newNode.entry))
                /\ sess' = [sess EXCEPT ![w].pc = "reply"]
    /\ UNCHANGED <<root, cmpMap, ret, kc, db, chans>>

(* doXADD's reply: the ID as a bulk string. *)
XAddReply(w) ==
    /\ sess[w].pc = "reply"
    /\ sess' = [sess EXCEPT ![w].pc = "done", ![w].replied = TRUE]
    /\ UNCHANGED <<root, LastEntry, cmpMap, ret, kc, db, chans>>

(* A reader session: Search and Range on the same stream. *)
ReaderSearch(r, key) ==
    /\ sess[r].pc = "idle"
    /\ LET res == SearchResult(key)
       IN  sess' = [sess EXCEPT ![r] = [IdleReader EXCEPT
                       !.pc = "got", !.op = "Search", !.key = key, !.val = res.val,
                       !.found = res.found, !.panic = res.panic]]
    /\ UNCHANGED <<root, LastEntry, cmpMap, ret, kc, db, chans>>

ReaderRange(r, fromKey, toKey) ==
    /\ sess[r].pc = "idle"
    /\ LET res == RangeResult(fromKey, toKey)
       IN  sess' = [sess EXCEPT ![r] = [IdleReader EXCEPT
                       !.pc = "got", !.op = "Range", !.key = fromKey, !.toKey = toKey,
                       !.entries = res.val, !.panic = res.panic]]
    /\ UNCHANGED <<root, LastEntry, cmpMap, ret, kc, db, chans>>

ReaderReturn(r) ==
    /\ sess[r].pc = "got"
    /\ sess' = [sess EXCEPT ![r] = IdleReader]
    /\ UNCHANGED <<root, LastEntry, cmpMap, ret, kc, db, chans>>

NextRace ==
    \/ \E w \in Writers, id \in XAddIds : XAddNewKey(w, id)
    \/ \E w \in Writers : XAddCheck(w)
    \/ \E w \in Writers : PutCheck(w)
    \/ \E w \in Writers : PutCreate(w)
    \/ \E w \in Writers : PutEntry(w)
    \/ \E w \in Writers : PutLast(w)
    \/ \E w \in Writers : XAddReply(w)
    \/ \E r \in Readers, key \in RaceKeys : ReaderSearch(r, key)
    \/ \E r \in Readers : ReaderRange(r, MinKey, MaxKey)
    \/ \E r \in Readers : ReaderReturn(r)

SpecRace == InitRace /\ [][NextRace]_vars

(***************************************************************************)
(* SpecBlock: XREAD ... BLOCK against streams that other sessions put to.  *)
(* doXREAD is the source's; the stream's subscriber registry and the       *)
(* delivery after a put are the specification's (section 4.3): subscribe   *)
(* appends a slot, unsubscribe marks it empty, and a successful put, after *)
(* its update of the trie, tries a non-blocking send of {entry,            *)
(* subscription id} to every live slot's channel. A put's update of the    *)
(* trie is one step here (SpecRace takes it apart).                        *)
(***************************************************************************)
Streams == {"s1", "s2"}
XReaders == {"x1"}
Subscribers == {"g1"}

(* Capacity of the channel doXREAD makes: make(chan streams.NewEntryMsg).  *)
XReadChanCap == 0
(* Capacity of the channel of a subscriber that drains its channel.        *)
SubChanCap == 2

NewStream == [root |-> RxNode, LastEntry |-> Entry(MinKey, NilVal), subs |-> <<>>]
NewChan(capacity) == [cap |-> capacity, parked |-> FALSE, buf |-> <<>>, log |-> <<>>]
NewEntryMsg(entry, id) == [Entry |-> entry, SubscriptionID |-> id]

(* Stream.Put on the stream st, without the delivery. *)
streamPut(st, key, val) ==
    IF IsMin(key) \/ ~GreaterThan(key, st.LastEntry.Key)
    THEN [err |-> TRUE, stream |-> st, entry |-> st.LastEntry]
    ELSE LET c == create(st.root, internalRepr(key))
             newNode == NodeAt(c.root, c.newNode)
             entry == IF newNode.entry = Nil
                      THEN Entry(key, val)
                      ELSE [Deref(newNode.entry) EXCEPT !.Key = key, !.Val = val]
         IN  [err |-> FALSE,
              stream |-> [st EXCEPT
                             !.root = SetNodeAt(c.root, c.newNode,
                                                [newNode EXCEPT !.entry = Ref(entry)]),
                             !.LastEntry = entry],
              entry |-> entry]

(* subscribe(channel, subscription_id): a slot is appended. *)
Subscribe(st, ch, id) ==
    [st EXCEPT !.subs = Append(@, [ch |-> ch, id |-> id, live |-> TRUE])]

(* Mutant: unsubscribe flips the mark of the channel's slots. *)
UnsubscribeFlip(st, ch) ==
    [st EXCEPT !.subs = [i \in 1..Len(@) |->
                            IF @[i].ch = ch THEN [@[i] EXCEPT !.live = ~@] ELSE @[i]]]

(* unsubscribe(channel): the channel's slots are marked empty. *)
Unsubscribe(st, ch) ==
    [st EXCEPT !.subs = [i \in 1..Len(@) |->
                            IF @[i].ch = ch THEN [@[i] EXCEPT !.live = FALSE] ELSE @[i]]]

(* A non-blocking send can proceed: room in the buffer, or, on a channel   *)
(* without buffer, a receiver parked on it that has not been handed a      *)
(* message.                                                                *)
CanSend(c) ==
    IF c.cap = 0 THEN c.parked /\ c.buf = <<>> ELSE Len(c.buf) < c.cap

(* Mutant: the send is made twice. *)
trySendTwice(c, msg) ==
    IF CanSend(c)
    THEN [c EXCEPT !.buf = Append(Append(@, msg), msg), !.log = Append(Append(@, msg), msg)]
    ELSE c

(* select { case ch <- msg: default: }; log is the history of the messages *)
(* the channel received.                                                   *)
trySend(c, msg) ==
    IF CanSend(c)
    THEN [c EXCEPT !.buf = Append(@, msg), !.log = Append(@, msg)]
    ELSE c

(* The delivery: the slots in order, from slot i on. *)
RECURSIVE deliverLoop(_, _, _, _)
deliverLoop(chs, subs, i, entry) ==
    IF i > Len(subs)
    THEN chs
    ELSE LET slot == subs[i]
         IN  IF slot.live
             THEN deliverLoop([chs EXCEPT ![slot.ch] =
                                  trySend(@, NewEntryMsg(entry, slot.id))],
                              subs, i + 1, entry)
             ELSE deliverLoop(chs, subs, i + 1, entry)

(* The channels that have a live slot in the stream st. *)
LiveChans(st) == {st.subs[i].ch : i \in {j \in 1..Len(st.subs) : st.subs[j].live}}

(* The arguments of XREAD: the stream names, a key argument for each, and  *)
(* the BLOCK argument (absent, 0, a positive or a negative number of ms).  *)
XReadNames == {<<"s1">>, <<"s1", "s2">>}
BlockKeyArgs == {[dollar |-> TRUE, key |-> MinKey],
                 [dollar |-> FALSE, key |-> Key(0, 1)]}
BlockArgs == {[present |-> FALSE, ms |-> 0], [present |-> TRUE, ms |-> 0],
              [present |-> TRUE, ms |-> 1], [present |-> TRUE, ms |-> -1]}
(* The key each writing session puts. *)
WriterKey(w) == IF w = "w1" THEN Key(0, 1) ELSE Key(0, 2)

IdleXReader == [pc |-> "idle", names |-> <<>>, keys |-> <<>>,
                block |-> [present |-> FALSE, ms |-> 0], i |-> 0, results |-> <<>>,
                emptyResult |-> TRUE, checked |-> <<>>, todo |-> {},
                timedOut |-> FALSE, err |-> FALSE]
IdlePutter == [pc |-> "idle", stream |-> "s1", entry |-> Entry(MinKey, NilVal),
               err |-> FALSE, subsAtPut |-> {}]
IdleSubscriber == [pc |-> "idle", stream |-> "s1", received |-> <<>>, again |-> FALSE]

InitBlock ==
    /\ root = RxNode
    /\ LastEntry = Entry(MinKey, NilVal)
    /\ cmpMap = {}
    /\ ret = NoRet
    /\ kc = <<>>
    /\ db = [s \in Streams |-> NewStream]
    /\ chans = [c \in XReaders \cup Subscribers |->
                   IF c \in XReaders THEN NewChan(XReadChanCap) ELSE NewChan(SubChanCap)]
    /\ sess = [p \in Writers \cup XReaders \cup Subscribers |->
                  IF p \in Writers THEN IdlePutter
                  ELSE IF p \in XReaders THEN IdleXReader ELSE IdleSubscriber]

(* A session puts an entry: Stream.Put up to the update of LastEntry.      *)
(* subsAtPut records the channels subscribed at that moment.               *)
WriterPut(w, s) ==
    /\ sess[w].pc = "idle"
    /\ LET r == streamPut(db[s], WriterKey(w), XAddVal(w))
       IN  IF r.err
           THEN /\ sess' = [sess EXCEPT ![w].pc = "done", ![w].err = TRUE, ![w].stream = s]
                /\ UNCHANGED db
           ELSE /\ db' = [db EXCEPT ![s] = r.stream]
                /\ sess' = [sess EXCEPT ![w].pc = "deliver", ![w].stream = s,
                                        ![w].entry = r.entry,
                                        ![w].subsAtPut = LiveChans(db[s])]
    /\ UNCHANGED <<root, LastEntry, cmpMap, ret, kc, chans>>

(* The put's delivery to the subscribers, after the update. *)
WriterDeliver(w) ==
    /\ sess[w].pc = "deliver"
    /\ chans' = deliverLoop(chans, db[sess[w].stream].subs, 1, sess[w].entry)
    /\ sess' = [sess EXCEPT ![w].pc = "done"]
    /\ UNCHANGED <<root, LastEntry, cmpMap, ret, kc, db>>

(* doXREAD: the arguments are parsed. *)
XReadStart(x, names, keys, block) ==
    /\ sess[x].pc = "idle"
    /\ Len(keys) = Len(names)
    /\ sess' = [sess EXCEPT ![x] = [IdleXReader EXCEPT
                    !.pc = "check", !.names = names, !.keys = keys, !.block = block]]
    /\ UNCHANGED <<root, LastEntry, cmpMap, ret, kc, db, chans>>

(* Mutant: the flag follows the stream checked last. *)
nextEmptyResultLast(emptyResult, newer) == ~newer

(* emptyResult after a stream whose last key is (newer) or is not greater  *)
(* than the key asked for.                                                 *)
nextEmptyResult(emptyResult, newer) == emptyResult /\ ~newer

(* doXREAD: one iteration of the loop over the stream names; checked keeps *)
(* what the iteration read.                                                *)
XReadCheckStream(x) ==
    /\ sess[x].pc = "check"
    /\ LET me == sess[x]
           s == At(me.names, me.i)
           st == db[s]
           fromKey == IF At(me.keys, me.i).dollar
                      THEN st.LastEntry.Key
                      ELSE At(me.keys, me.i).key
           newer == GreaterThan(st.LastEntry.Key, fromKey)
           next == KeyNext(fromKey)
           results == IF newer
                      THEN IF next.overflow
                           THEN me.results
                           ELSE (s :> StreamRange(st.root, next.key, MaxKey).val) @@ me.results
                      ELSE (s :> <<>>) @@ me.results
       IN  sess' = [sess EXCEPT ![x] = [me EXCEPT
                       !.pc = IF me.i + 1 = Len(me.names) THEN "decide" ELSE "check",
                       !.i = me.i + 1,
                       !.results = results,
                       !.emptyResult = nextEmptyResult(me.emptyResult, newer),
                       !.checked = Append(@, [stream |-> s, last |-> st.LastEntry.Key,
                                              fromKey |-> fromKey])]]
    /\ UNCHANGED <<root, LastEntry, cmpMap, ret, kc, db, chans>>

(* doXREAD: the BLOCK test; the channel is made, or the results returned. *)
XReadDecide(x) ==
    /\ sess[x].pc = "decide"
    /\ IF sess[x].emptyResult /\ sess[x].block.present
       THEN IF sess[x].block.ms < 0
            THEN sess' = [sess EXCEPT ![x].pc = "done", ![x].err = TRUE]
            ELSE sess' = [sess EXCEPT ![x].pc = "subscribe",
                                     ![x].todo = DOMAIN sess[x].results]
       ELSE sess' = [sess EXCEPT ![x].pc = "done"]
    /\ UNCHANGED <<root, LastEntry, cmpMap, ret, kc, db, chans>>

(* doXREAD: stream.Subscribe(ch, stream) for a stream of results, in the   *)
(* order the map yields them.                                              *)
XReadSubscribe(x, s) ==
    /\ sess[x].pc = "subscribe"
    /\ s \in sess[x].todo
    /\ db' = [db EXCEPT ![s] = Subscribe(@, x, s)]
    /\ sess' = [sess EXCEPT ![x].todo = @ \ {s},
                            ![x].pc = IF sess[x].todo = {s} THEN "wait" ELSE "subscribe"]
    /\ UNCHANGED <<root, LastEntry, cmpMap, ret, kc, chans>>

(* doXREAD: the session starts to receive from the channel. *)
XReadPark(x) ==
    /\ sess[x].pc = "wait"
    /\ chans' = [chans EXCEPT ![x].parked = TRUE]
    /\ sess' = [sess EXCEPT ![x].pc = "recv"]
    /\ UNCHANGED <<root, LastEntry, cmpMap, ret, kc, db>>

(* doXREAD: entryMsg = <-ch, and the entry is put in results; the function *)
(* returns without unsubscribing.                                          *)
XReadRecv(x) ==
    /\ sess[x].pc = "recv"
    /\ chans[x].buf # <<>>
    /\ LET entryMsg == Head(chans[x].buf)
       IN  sess' = [sess EXCEPT ![x].pc = "done",
                               ![x].results = (entryMsg.SubscriptionID :> <<entryMsg.Entry>>) @@ @]
    /\ chans' = [chans EXCEPT ![x].buf = Tail(@), ![x].parked = FALSE]
    /\ UNCHANGED <<root, LastEntry, cmpMap, ret, kc, db>>

(* doXREAD: the timer of BLOCK ms > 0 fires first; the null reply is       *)
(* written and the function returns without unsubscribing.                 *)
XReadTimeout(x) ==
    /\ sess[x].pc = "recv"
    /\ sess[x].block.ms > 0
    /\ chans[x].buf = <<>>
    /\ chans' = [chans EXCEPT ![x].parked = FALSE]
    /\ sess' = [sess EXCEPT ![x].pc = "done", ![x].timedOut = TRUE]
    /\ UNCHANGED <<root, LastEntry, cmpMap, ret, kc, db>>

(* A subscriber that drains its channel: subscribe, receive, unsubscribe.  *)
(* again is set once it has unsubscribed a second time.                    *)
SubSubscribe(g, s) ==
    /\ sess[g].pc = "idle"
    /\ db' = [db EXCEPT ![s] = Subscribe(@, g, s)]
    /\ sess' = [sess EXCEPT ![g].pc = "subscribed", ![g].stream = s]
    /\ UNCHANGED <<root, LastEntry, cmpMap, ret, kc, chans>>

SubReceive(g) ==
    /\ sess[g].pc \in {"subscribed", "unsubscribed"}
    /\ chans[g].buf # <<>>
    /\ sess' = [sess EXCEPT ![g].received = Append(@, Head(chans[g].buf))]
    /\ chans' = [chans EXCEPT ![g].buf = Tail(@)]
    /\ UNCHANGED <<root, LastEntry, cmpMap, ret, kc, db>>

(* The subscriber unsubscribes, and may unsubscribe once again. *)
SubUnsubscribe(g) ==
    /\ \/ sess[g].pc = "subscribed"
       \/ sess[g].pc = "unsubscribed" /\ ~sess[g].again
    /\ db' = [db EXCEPT ![sess[g].stream] = Unsubscribe(@, g)]
    /\ sess' = [sess EXCEPT ![g].pc = "unsubscribed",
                            ![g].again = (sess[g].pc = "unsubscribed")]
    /\ UNCHANGED <<root, LastEntry, cmpMap, ret, kc, chans>>

NextBlock ==
    \/ \E w \in Writers, s \in Streams : WriterPut(w, s)
    \/ \E w \in Writers : WriterDeliver(w)
    \/ \E x \in XReaders, names \in XReadNames, block \in BlockArgs :
           \E keys \in [1..Len(names) -> BlockKeyArgs] : XReadStart(x, names, keys, block)
    \/ \E x \in XReaders : XReadCheckStream(x)
    \/ \E x \in XReaders : XReadDecide(x)
    \/ \E x \in XReaders, s \in Streams : XReadSubscribe(x, s)
    \/ \E x \in XReaders : XReadPark(x)
    \/ \E x \in XReaders : XReadRecv(x)
    \/ \E x \in XReaders : XReadTimeout(x)
    \/ \E g \in Subscribers : SubSubscribe(g, "s1")
    \/ \E g \in Subscribers : SubReceive(g)
    \/ \E g \in Subscribers : SubUnsubscribe(g)

SpecBlock == InitBlock /\ [][NextBlock]_vars

(***************************************************************************)
(* SpecXAdd: sessions running XADD on a stream name that is not in the     *)
(* key-value store yet.  The store (a sync.Map) maps the name to a pointer *)
(* to a Stream; a pointer is the name of the session that allocated the    *)
(* object, and objs holds the objects.  Load and Store are atomic, and so  *)
(* is Stream.Put, which takes the stream's writer lock; between them the   *)
(* sessions interleave.  A command is its number of tokens and its ID.     *)
(***************************************************************************)
XAddMinTokens == 5
XAddFirstPair == 3

XAddTokens == {XAddMinTokens - 2, XAddMinTokens - 1, XAddMinTokens, XAddMinTokens + 1}
XAddCmdIds == {String(MinKey), String(Key(0, 1)), String(Key(0, 2)), <<LetterA>>}

IdleXAdd == [pc |-> "idle", cmds |-> [n |-> 0, id |-> <<>>], stream |-> Nil,
             missed |-> FALSE, key |-> MinKey, err |-> FALSE, arity |-> FALSE,
             putOk |-> FALSE, replied |-> FALSE]

InitXAdd ==
    /\ root = RxNode
    /\ LastEntry = Entry(MinKey, NilVal)
    /\ cmpMap = {}
    /\ ret = NoRet
    /\ kc = <<>>
    /\ chans = <<>>
    /\ db = [store |-> Nil, objs |-> [w \in Writers |-> NewStream]]
    /\ sess = [w \in Writers |-> IdleXAdd]

(* Mutant: the stream is stored before the number of tokens is tested. *)
XAddArityAfterStore(w, n, id) ==
    /\ sess[w].pc = "idle"
    /\ IF n < XAddMinTokens
       THEN /\ sess' = [sess EXCEPT ![w].pc = "done", ![w].cmds = [n |-> n, id |-> id],
                                    ![w].err = TRUE, ![w].arity = TRUE]
            /\ db' = [db EXCEPT !.store = Ref(w)]
       ELSE /\ sess' = [sess EXCEPT ![w].pc = "load", ![w].cmds = [n |-> n, id |-> id]]
            /\ UNCHANGED db
    /\ UNCHANGED <<root, LastEntry, cmpMap, ret, kc, chans>>

(* doXADD is called with a command; fewer than 5 tokens is an error. *)
XAddArity(w, n, id) ==
    /\ sess[w].pc = "idle"
    /\ IF n < XAddMinTokens
       THEN sess' = [sess EXCEPT ![w].pc = "done", ![w].cmds = [n |-> n, id |-> id],
                                 ![w].err = TRUE, ![w].arity = TRUE]
       ELSE sess' = [sess EXCEPT ![w].pc = "load", ![w].cmds = [n |-> n, id |-> id]]
    /\ UNCHANGED <<root, LastEntry, cmpMap, ret, kc, db, chans>>

(* value, ok := s.valueDB.Load(streamKey) *)
XAddLoad(w) ==
    /\ sess[w].pc = "load"
    /\ IF db.store # Nil
       THEN sess' = [sess EXCEPT ![w].pc = "newkey", ![w].stream = db.store]
       ELSE sess' = [sess EXCEPT ![w].pc = "store", ![w].missed = TRUE]
    /\ UNCHANGED <<root, LastEntry, cmpMap, ret, kc, db, chans>>

(* stream = streams.NewStream(); s.valueDB.Store(streamKey, stream) *)
XAddStore(w) ==
    /\ sess[w].pc = "store"
    /\ db' = [db EXCEPT !.store = Ref(w), !.objs[w] = NewStream]
    /\ sess' = [sess EXCEPT ![w].pc = "newkey", ![w].stream = Ref(w)]
    /\ UNCHANGED <<root, LastEntry, cmpMap, ret, kc, chans>>

(* streams.NewKey(cmds[2], stream), and the test for 0-0. *)
XAddParse(w) ==
    /\ sess[w].pc = "newkey"
    /\ LET stream == db.objs[Deref(sess[w].stream)]
           streamEntryKey == NewKey(sess[w].cmds.id, stream.LastEntry.Key, RaceNow)
       IN  IF streamEntryKey.err \/ streamEntryKey.key = Key(0, 0)
           THEN sess' = [sess EXCEPT ![w].pc = "done", ![w].err = TRUE]
           ELSE sess' = [sess EXCEPT ![w].pc = "check", ![w].key = streamEntryKey.key]
    /\ UNCHANGED <<root, LastEntry, cmpMap, ret, kc, db, chans>>

(* The comparison with stream.LastEntry.Key, and the tests of keyVals. *)
XAddKeyVals(w) ==
    /\ sess[w].pc = "check"
    /\ LET stream == db.objs[Deref(sess[w].stream)]
           lenKeyVals == sess[w].cmds.n - XAddFirstPair
       IN  IF \/ ~GreaterThan(sess[w].key, stream.LastEntry.Key)
              \/ lenKeyVals < 2
              \/ lenKeyVals % 2 # 0
           THEN sess' = [sess EXCEPT ![w].pc = "done", ![w].err = TRUE]
           ELSE sess' = [sess EXCEPT ![w].pc = "put"]
    /\ UNCHANGED <<root, LastEntry, cmpMap, ret, kc, db, chans>>

(* stream.Put(streamEntryKey, streamEntryVal); its error is dropped.  The  *)
(* delivery goes to the stream's subscribers.                              *)
XAddPut(w) ==
    /\ sess[w].pc = "put"
    /\ LET ptr == Deref(sess[w].stream)
           r == streamPut(db.objs[ptr], sess[w].key, XAddVal(w))
       IN  /\ db' = [db EXCEPT !.objs[ptr] = r.stream]
           /\ sess' = [sess EXCEPT ![w].pc = "reply", ![w].putOk = ~r.err]
    /\ chans' = IF sess'[w].putOk
                THEN deliverLoop(chans, db'.objs[Deref(sess[w].stream)].subs, 1,
                                 db'.objs[Deref(sess[w].stream)].LastEntry)
                ELSE chans
    /\ UNCHANGED <<root, LastEntry, cmpMap, ret, kc>>

(* The reply: the ID as a bulk string. *)
XAddWrite(w) ==
    /\ sess[w].pc = "reply"
    /\ sess' = [sess EXCEPT ![w].pc = "done", ![w].replied = TRUE]
    /\ UNCHANGED <<root, LastEntry, cmpMap, ret, kc, db, chans>>

NextXAdd ==
    \/ \E w \in Writers, n \in XAddTokens, id \in XAddCmdIds : XAddArity(w, n, id)
    \/ \E w \in Writers : XAddLoad(w)
    \/ \E w \in Writers : XAddStore(w)
    \/ \E w \in Writers : XAddParse(w)
    \/ \E w \in Writers : XAddKeyVals(w)
    \/ \E w \in Writers : XAddPut(w)
    \/ \E w \in Writers : XAddWrite(w)

SpecXAdd == InitXAdd /\ [][NextXAdd]_vars

(***************************************************************************)
(* Vocabulary of the properties.                                           *)
(***************************************************************************)
KeyLE(a, b) == ~GreaterThan(a, b)

RECURSIVE TrieEntries(_)
TrieEntries(n) ==
    (IF n.entry = Nil THEN {} ELSE {Deref(n.entry)})
        \cup UNION {TrieEntries(n.children[i]) : i \in 1..Len(n.children)}

RECURSIVE TrieNodes(_)
TrieNodes(n) ==
    {n} \cup UNION {TrieNodes(n.children[i]) : i \in 1..Len(n.children)}

SortAsc(S) ==
    [i \in 1..Cardinality(S) |->
        CHOOSE e \in S : Cardinality({x \in S : LesserThan(x.Key, e.Key)}) = i - 1]

Between(fromKey, toKey) ==
    {e \in cmpMap : KeyLE(fromKey, e.Key) /\ KeyLE(e.Key, toKey)}

InSeq(e, s) == \E i \in 1..Len(s) : s[i] = e

PutOk == ret.op = "Put" /\ ~ret.err

(* C1: after any sequence of successful puts with increasing keys, Search  *)
(* of every key put returns its value and found, whatever was put later.   *)
ThmC1_PutThenSearch ==
    ret.op = "Search" =>
        \A e \in cmpMap :
            e.Key = ret.key => ~ret.panic /\ ret.found /\ ret.val = e.Val

WitC1_SearchEarlierAfterGrowth ==
    /\ ret.op = "Search" /\ ret.found
    /\ LesserThan(ret.key, LastEntry.Key)
    /\ \E n \in TrieNodes(root) : Len(n.children) = 3 /\ n.childCap = 4
    /\ \E n \in TrieNodes(root) : n.entry # Nil /\ n.extraChars = <<>>

(* C2: every put entry whose key lies in [from, to] is in Range(from, to). *)
(* Stated for from < to and a Range that returns: Range(k, k) is C5, the   *)
(* runtime error is C4.                                                    *)
CexC2_RangeComplete ==
    (ret.op = "Range" /\ LesserThan(ret.key, ret.toKey) /\ ~ret.panic) =>
        \A e \in Between(ret.key, ret.toKey) : InSeq(e, ret.entries)

(* C3: every entry Range(from, to) returns was put, with that value, and   *)
(* its key lies in [from, to].                                             *)
ThmC3_RangeSound ==
    ret.op = "Range" =>
        \A i \in 1..Len(ret.entries) : ret.entries[i] \in Between(ret.key, ret.toKey)

WitC3_RangeProperSubset ==
    /\ ret.op = "Range" /\ ~IsMax(ret.toKey)
    /\ Len(ret.entries) >= 1
    /\ \E e \in cmpMap : LesserThan(e.Key, ret.key)
    /\ \E e \in cmpMap : GreaterThan(e.Key, ret.toKey)

(* C4: Search and Range return without a runtime error, in every state and *)
(* for every argument.                                                     *)
CexC4_NoPanic == ret.op \in {"Search", "Range"} => ~ret.panic

(* C5: Range(k, k) is the one entry stored under k when there is one, and  *)
(* empty otherwise.                                                        *)
CexC5_RangeSingleKey ==
    (ret.op = "Range" /\ ret.key = ret.toKey) =>
        /\ ~ret.panic
        /\ ret.entries = SortAsc(Between(ret.key, ret.key))

(* C6: the list Range returns is strictly ascending by key.                *)
ThmC6_RangeAscending ==
    ret.op = "Range" =>
        \A i \in 1..Len(ret.entries), j \in 1..Len(ret.entries) :
            i < j => LesserThan(ret.entries[i].Key, ret.entries[j].Key)

WitC6_AscendingAcrossPaths ==
    /\ ret.op = "Range" /\ ~IsMax(ret.toKey)
    /\ Len(ret.entries) = 3
    /\ ret.entries[1].Key.LeftNr # ret.entries[3].Key.LeftNr

(* C7: Range(from, MaxKey) with from < MaxKey is exactly the put entries    *)
(* with key >= from, ascending, the one stored at from included.           *)
ThmC7_RangeToMax ==
    (ret.op = "Range" /\ IsMax(ret.toKey) /\ LesserThan(ret.key, MaxKey)) =>
        /\ ~ret.panic
        /\ ret.entries = SortAsc(Between(ret.key, MaxKey))

WitC7_FromStoredAndBetween ==
    /\ ret.op = "Range" /\ IsMax(ret.toKey)
    /\ Len(ret.entries) = 2
    /\ Cardinality(cmpMap) = 3
    /\ ret.entries[1].Key = ret.key
    /\ ~IsMax(ret.entries[2].Key)

(* C8: a Put of MinKey or of a key not above LastEntry.Key returns the     *)
(* error and changes neither the trie nor LastEntry; no entry is ever      *)
(* stored under MinKey.                                                    *)
RejectedPutLeavesUnchanged ==
    (ret.op = "none" /\ ret'.op = "Put"
        /\ (IsMin(ret'.key) \/ KeyLE(ret'.key, LastEntry.Key)))
    => /\ ret'.err
       /\ root' = root
       /\ LastEntry' = LastEntry
       /\ \A e \in TrieEntries(root') : ~IsMin(e.Key)

ThmC8_RejectedPut == [][RejectedPutLeavesUnchanged]_vars

WitC8_RejectedOverwrite ==
    /\ ret.op = "Put" /\ ret.err
    /\ ~IsMin(ret.key)
    /\ ret.key = LastEntry.Key
    /\ ret.val # LastEntry.Val

(* C9: LastEntry.Key never decreases, strictly increases on a successful   *)
(* Put, and once it is not MinKey it never is again.                       *)
LastKeyMonotone ==
    /\ KeyLE(LastEntry.Key, LastEntry'.Key)
    /\ (ret'.op = "Put" /\ ~ret'.err) =>
           /\ GreaterThan(LastEntry'.Key, LastEntry.Key)
           /\ ~IsMin(LastEntry'.Key)
    /\ ~IsMin(LastEntry.Key) => ~IsMin(LastEntry'.Key)

ThmC9_LastKeyMonotone == [][LastKeyMonotone]_vars

WitC9_SecondPut ==
    /\ PutOk
    /\ Cardinality(cmpMap) >= 2
    /\ LastEntry.Key = ret.key

(* C10: LastEntry is the entry with the greatest key in the trie, key and  *)
(* value; it has MinKey when the trie holds no entry.                      *)
ThmC10_LastIsGreatest ==
    LET stored == TrieEntries(root)
    IN  IF stored = {}
        THEN IsMin(LastEntry.Key)
        ELSE /\ LastEntry \in stored
             /\ \A e \in stored : KeyLE(e.Key, LastEntry.Key)

WitC10_LastOfThree ==
    /\ Cardinality(TrieEntries(root)) = 3
    /\ \E e \in TrieEntries(root) : e.Val # LastEntry.Val

(* C11: Search reports found = false, without a panic, for every key that  *)
(* no successful Put stored, also on the empty stream and when the key     *)
(* shares a prefix of its internal key with stored keys.                   *)
ThmC11_SearchOnlyPut ==
    (ret.op = "Search" /\ \A e \in cmpMap : e.Key # ret.key) =>
        ~ret.found /\ ~ret.panic /\ ret.val = NilVal

WitC11_MissOnSharedPrefix ==
    /\ ret.op = "Search" /\ ~ret.found
    /\ \E e \in cmpMap :
           /\ e.Key.LeftNr = ret.key.LeftNr
           /\ e.Key.RightNr # ret.key.RightNr
           /\ Slice(internalRepr(e.Key), 0, KeyLen - 1)
                  = Slice(internalRepr(ret.key), 0, KeyLen - 1)

(* C18: XREAD without BLOCK returns, for a stream and the key k given for  *)
(* it, exactly the stored entries with key greater than k in ascending     *)
(* order; "$" stands for the last key.                                     *)
CexC18_XReadGreaterThan ==
    ret.op \in {"doXREAD", "collectXREAD"} =>
        /\ ~ret.panic
        /\ ret.entries = SortAsc({e \in cmpMap : GreaterThan(e.Key, ret.key)})

(* C20: parsing the text String makes of a key, against any last key,      *)
(* returns the key's two numbers without error, and the parsed key has the *)
(* same internal representation as the key built from the numbers.         *)
ThmC20_RoundTrip ==
    kc.stage = "parsed" =>
        /\ ~kc.err
        /\ kc.keyFromStr.LeftNr = kc.keyFromInt.LeftNr
        /\ kc.keyFromStr.RightNr = kc.keyFromInt.RightNr
        /\ internalRepr(kc.keyFromStr) = internalRepr(kc.keyFromInt)

WitC20_MaxParsed ==
    /\ kc.stage = "parsed"
    /\ kc.keyFromInt = MaxKey
    /\ kc.keyFromStr = kc.keyFromInt
    /\ Len(kc.text) = 2 * Len(FormatUint(MaxUint64)) + 1
    /\ kc.last = MaxKey

(* C12: under any interleaving of XADD commands of concurrent sessions on  *)
(* one existing stream, every XADD that has replied with its ID has its    *)
(* entry, the ID and the session's own field values, stored under that ID. *)
CexC12_RepliedIsStored ==
    \A w \in Writers :
        sess[w].replied =>
            LET res == SearchResult(sess[w].key)
            IN  ~res.panic /\ res.found /\ res.val = XAddVal(w)

(* C13: a Search or Range concurrent with a Put never reaches a leaf whose *)
(* entry is still absent: it sees the entry with key and value, or not at  *)
(* all.                                                                    *)
CexC13_ReaderSeesWholeEntry ==
    \A r \in Readers :
        sess[r].pc = "got" =>
            /\ ~sess[r].panic
            /\ sess[r].found =>
                   \E w \in Writers : sess[w].key = sess[r].key /\ sess[r].val = XAddVal(w)
            /\ \A i \in 1..Len(sess[r].entries) :
                   \E w \in Writers : sess[r].entries[i] = Entry(sess[w].key, XAddVal(w))

(* The session x has suspended or is about to: it subscribes, is about to  *)
(* receive, or receives.                                                   *)
Suspending(x) == sess[x].pc \in {"subscribe", "wait", "recv"}

NoDuplicate(q) == \A i, j \in 1..Len(q) : i # j => q[i] # q[j]

(* C14: a reader with BLOCK 0 that was subscribed to the stream when a Put *)
(* succeeded is not left waiting once that Put's delivery is over: it has  *)
(* been handed an entry.                                                   *)
CexC14_WakeUp ==
    \A w \in Writers, x \in XReaders :
        (/\ sess[w].pc = "done" /\ ~sess[w].err
         /\ x \in sess[w].subsAtPut
         /\ sess[x].block.ms = 0)
            => ~(Suspending(x) /\ chans[x].buf = <<>>)

(* C15: once XREAD ... BLOCK has returned, by the timer or by a delivery,  *)
(* no stream holds a live subscription of its channel.                     *)
CexC15_NoLeak ==
    \A x \in XReaders :
        sess[x].pc = "done" => \A s \in Streams : x \notin LiveChans(db[s])

(* C16: no channel receives the entry of one Put for one subscription      *)
(* twice.                                                                  *)
ThmC16_AtMostOnce ==
    \A c \in DOMAIN chans : NoDuplicate(chans[c].log)

WitC16_OnceAndNever ==
    /\ \A w \in Writers : sess[w].pc = "done" /\ ~sess[w].err /\ sess[w].stream = "s1"
    /\ Len(chans["g1"].log) = 2
    /\ Len(chans["x1"].log) = 1
    /\ \A w \in Writers : "x1" \in sess[w].subsAtPut

(* C17: the entries a subscriber receives from one stream arrive in append *)
(* order, with strictly increasing keys.                                   *)
CexC17_DeliveryOrder ==
    \A g \in Subscribers :
        \A i, j \in 1..Len(sess[g].received) :
            i < j => LesserThan(sess[g].received[i].Entry.Key,
                                sess[g].received[j].Entry.Key)

(* C19: XREAD with BLOCK subscribes or suspends only if, when it checked   *)
(* them, no named stream had a last key greater than the key asked for it, *)
(* and every named stream yielded an empty result.                         *)
ThmC19_BlockOnlyWhenEmpty ==
    \A x \in XReaders :
        Suspending(x) =>
            /\ sess[x].block.present
            /\ \A i \in 1..Len(sess[x].checked) :
                   ~GreaterThan(sess[x].checked[i].last, sess[x].checked[i].fromKey)
            /\ \A s \in DOMAIN sess[x].results : sess[x].results[s] = <<>>
            /\ Len(sess[x].checked) = Len(sess[x].names)

WitC19_NewerStreamNoBlock ==
    \E x \in XReaders :
        /\ sess[x].pc = "done" /\ sess[x].block.present /\ ~sess[x].err
        /\ Len(sess[x].names) = 2
        /\ ~GreaterThan(sess[x].checked[1].last, sess[x].checked[1].fromKey)
        /\ GreaterThan(sess[x].checked[2].last, sess[x].checked[2].fromKey)
        /\ ~sess[x].timedOut
        /\ \A s \in Streams : x \notin LiveChans(db[s])
        /\ sess[x].results["s2"] # <<>>

(***************************************************************************)
(* Vocabulary of the key properties.                                       *)
(***************************************************************************)
(* s is lexicographically smaller than t (sequences of symbols). *)
RECURSIVE LexLess(_, _)
LexLess(s, t) ==
    IF t = <<>> THEN FALSE
    ELSE IF s = <<>> THEN TRUE
    ELSE IF Head(s) # Head(t) THEN Head(s) < Head(t)
    ELSE LexLess(Tail(s), Tail(t))

(* The number whose base-64 digits, most significant first, are s. *)
RECURSIVE DigitsValue(_)
DigitsValue(s) ==
    IF s = <<>> THEN 0
    ELSE DigitsValue(SubSeq(s, 1, Len(s) - 1)) * Base + s[Len(s)]

(* The double-width value of a key: LeftNr * 2^w + RightNr. *)
KeyValue(k) == k.LeftNr * (MaxUint64 + 1) + k.RightNr
KeyValues == (MaxUint64 + 1) * (MaxUint64 + 1)

(* C21: for all keys a and b, a.LesserThan(b) holds exactly when           *)
(* internalRepr(a) is lexicographically smaller than internalRepr(b), and  *)
(* a equals b exactly when the two representations are equal.              *)
ThmC21_OrderPreserved ==
    kc.stage = "repr" =>
        /\ LesserThan(kc.a, kc.b) <=> LexLess(kc.reprA, kc.reprB)
        /\ EqualTo(kc.a, kc.b) <=> kc.reprA = kc.reprB
        /\ kc.a = kc.b <=> kc.reprA = kc.reprB

WitC21_LowerLeftHigherRight ==
    /\ kc.stage = "repr"
    /\ kc.a = Key(Base - 1, MaxUint64)
    /\ kc.b = Key(Base, 0)
    /\ LesserThan(kc.a, kc.b)
    /\ LexLess(kc.reprA, kc.reprB)
    /\ ~LexLess(kc.reprB, kc.reprA)

(* C22: internalRepr of a key (l, r) has exactly 22 symbols, each in       *)
(* 0..63; symbols 0..10 are the base-64 digits of l and symbols 11..21 the *)
(* base-64 digits of r, most significant first, zero-padded on the left.   *)
ThmC22_ReprDigits ==
    kc.stage = "repr" =>
        /\ Len(kc.reprA) = KeyLen
        /\ \A i \in 1..Len(kc.reprA) : kc.reprA[i] \in 0..(Base - 1)
        /\ DigitsValue(Slice(kc.reprA, 0, HalfLen)) = kc.a.LeftNr
        /\ DigitsValue(SliceFrom(kc.reprA, HalfLen)) = kc.a.RightNr

WitC22_SecondDigit ==
    /\ kc.stage = "repr"
    /\ kc.a = Key(0, Base)
    /\ kc.b = Key(0, 2 * Base - 1)
    /\ SliceFrom(kc.reprA, KeyLen - 2) = <<1, 0>>
    /\ SliceFrom(kc.reprB, KeyLen - 2) = <<1, Base - 1>>
    /\ \A i \in 1..(KeyLen - 2) : kc.reprA[i] = 0 /\ kc.reprB[i] = 0

(* C27: Key.Next returns the key whose double-width value is one greater,  *)
(* carrying from the right number into the left, with overflow set exactly *)
(* when the receiver is MaxKey, where the result wraps to (0, 0).          *)
ThmC27_NextIsSuccessor ==
    kc.stage = "next" =>
        /\ KeyValue(kc.next.key) = (KeyValue(kc.a) + 1) % KeyValues
        /\ kc.next.overflow <=> kc.a = MaxKey
        /\ kc.next.overflow => kc.next.key = MinKey

WitC27_Carry ==
    /\ kc.stage = "next"
    /\ kc.a = Key(Base - 1, MaxUint64)
    /\ kc.next.key = Key(Base, 0)
    /\ ~kc.next.overflow

(* C28: Key.Prev returns the key whose double-width value is one smaller,  *)
(* borrowing from the left number when the right number is 0, with         *)
(* underflow set exactly when the receiver is MinKey; hence Prev(Next(k))  *)
(* is k for every k other than MaxKey.                                     *)
CexC28_PrevIsPredecessor ==
    /\ kc.stage = "prev" =>
           /\ KeyValue(kc.prev.key) = (KeyValue(kc.a) - 1) % KeyValues
           /\ kc.prev.underflow <=> kc.a = MinKey
    /\ kc.stage = "nextprev" /\ kc.a # MaxKey => kc.prev.key = kc.a

(***************************************************************************)
(* Vocabulary of the parsing properties.                                   *)
(***************************************************************************)
IsDigit(c) == c >= Digit0 /\ c <= Digit9
AllDigits(s) == \A i \in 1..Len(s) : IsDigit(s[i])
HasHyphen(s) == \E i \in 1..Len(s) : s[i] = Hyphen
FirstHyphen(s) == SetMin({i \in 1..Len(s) : s[i] = Hyphen})
BeforeHyphen(s) == SubSeq(s, 1, FirstHyphen(s) - 1)
AfterHyphen(s) == SubSeq(s, FirstHyphen(s) + 1, Len(s))

(* The number a string of decimal digits denotes; the empty string is 0. *)
RECURSIVE DecimalValue(_)
DecimalValue(s) ==
    IF s = <<>> THEN 0
    ELSE DecimalValue(SubSeq(s, 1, Len(s) - 1)) * 10 + (s[Len(s)] - Digit0)

(* C23: for "*", whose left number is the clock, and for "<digits>-*",     *)
(* whose left number is the digits, the parsed key has right number        *)
(* last.right + 1 when its left number is last.left, and 0 otherwise.      *)
CexC23_WildcardSequence ==
    /\ kc.stage = "parsed" /\ kc.text = <<Star>> =>
           /\ ~kc.err
           /\ kc.key.LeftNr = kc.now
           /\ kc.key.RightNr = IF kc.now = kc.last.LeftNr
                               THEN kc.last.RightNr + 1 ELSE 0
    /\ (/\ kc.stage = "parsed"
        /\ HasHyphen(kc.text)
        /\ AfterHyphen(kc.text) = <<Star>>
        /\ AllDigits(BeforeHyphen(kc.text))
        /\ DecimalValue(BeforeHyphen(kc.text)) <= MaxUint64) =>
           /\ ~kc.err
           /\ kc.key.LeftNr = DecimalValue(BeforeHyphen(kc.text))
           /\ kc.key.RightNr = IF kc.key.LeftNr = kc.last.LeftNr
                               THEN kc.last.RightNr + 1 ELSE 0

(* C24: for every reading of the clock and every last key, the key parsed  *)
(* from "*" is strictly greater than the last key; when the clock is       *)
(* behind last.left the key is (last.left, last.right + 1).                *)
CexC24_AutoIdMonotone ==
    kc.stage = "parsed" /\ kc.text = <<Star>> =>
        /\ ~kc.err
        /\ GreaterThan(kc.key, kc.last)
        /\ kc.now < kc.last.LeftNr =>
               kc.key = Key(kc.last.LeftNr, kc.last.RightNr + 1)

(* C25: parsing returns an error for every text, other than "-", "+" and   *)
(* "*", that holds a rune which is no decimal digit, no hyphen and no      *)
(* star, wherever the rune stands, and for every text without a hyphen.    *)
CexC25_InvalidTextIsError ==
    (/\ kc.stage = "parsed"
     /\ kc.text \notin {<<Hyphen>>, <<Plus>>, <<Star>>}
     /\ \/ \E i \in 1..Len(kc.text) :
               ~IsDigit(kc.text[i]) /\ kc.text[i] \notin {Hyphen, Star}
        \/ ~HasHyphen(kc.text)) =>
        kc.err

(* C26: for decimal digit strings on both sides of the hyphen, parsing     *)
(* returns an error when a denoted number exceeds MaxUint64 and otherwise  *)
(* returns exactly the two denoted numbers, never a wrapped value.         *)
ThmC26_ParseOverflow ==
    (/\ kc.stage = "parsed"
     /\ HasHyphen(kc.text)
     /\ AllDigits(BeforeHyphen(kc.text))
     /\ AllDigits(AfterHyphen(kc.text))
     /\ Len(kc.text) > 1) =>
        LET l == DecimalValue(BeforeHyphen(kc.text))
            r == DecimalValue(AfterHyphen(kc.text))
        IN  IF l > MaxUint64 \/ r > MaxUint64
            THEN kc.err
            ELSE ~kc.err /\ kc.key = Key(l, r)

WitC26_WrapIsError ==
    /\ kc.stage = "parsed"
    /\ kc.text = FormatUint(MaxUint64) \o <<Hyphen>> \o FormatUint(MaxUint64 + 5)
    /\ DecimalValue(AfterHyphen(kc.text)) % (MaxUint64 + 1) = 4
    /\ kc.err

(* C29: unsubscribing the same channel from a stream a second time changes *)
(* nothing observable: the subscriber list of every stream, the live       *)
(* channels, and every channel's content and history are as after the      *)
(* first unsubscribe, so that later puts deliver as they did before it.    *)
ThmC29_UnsubscribeTwice ==
    [][\A g \in Subscribers :
           sess[g].pc = "unsubscribed" /\ sess'[g].again /\ ~sess[g].again =>
               /\ db' = db
               /\ chans' = chans
               /\ \A s \in Streams : LiveChans(db'[s]) = LiveChans(db[s])
               /\ g \notin LiveChans(db'[sess[g].stream])
               /\ \A w \in Writers :
                      sess[w].pc = "deliver" =>
                          deliverLoop(chans', db'[sess[w].stream].subs, 1, sess[w].entry)
                              = deliverLoop(chans, db[sess[w].stream].subs, 1, sess[w].entry)]_vars

WitC29_OtherStillSubscribed ==
    /\ sess["g1"].pc = "unsubscribed"
    /\ sess["g1"].again
    /\ LiveChans(db["s1"]) = {"x1"}
    /\ Len(db["s1"].subs) = 2
    /\ \E w \in Writers : sess[w].pc = "deliver" /\ sess[w].stream = "s1"

(***************************************************************************)
(* Vocabulary of the trie's paths.  The edge to the i-th child of a node   *)
(* is the i-th lowest bit of the node's bitmap; a node stands at the       *)
(* symbols of the edges and extra symbols above it, at, and its path is at *)
(* followed by its own extra symbols.                                      *)
(***************************************************************************)
EdgeSymbol(n, i) == CHOOSE b \in n.bitmap : Cardinality({x \in n.bitmap : x < b}) = i - 1

RECURSIVE NodeSyms(_, _)
NodeSyms(n, at) ==
    {[at |-> at, extra |-> n.extraChars, entry |-> n.entry]}
        \cup UNION {NodeSyms(n.children[i], at \o n.extraChars \o <<EdgeSymbol(n, i)>>) :
                        i \in 1..Len(n.children)}

LeafPaths(n) ==
    {[path |-> r.at \o r.extra, key |-> Deref(r.entry).Key] :
        r \in {q \in NodeSyms(n, <<>>) : q.entry # Nil}}

(* The extra symbols e of a node at a position are, in the trie m, still   *)
(* there whole, or cut in two around one symbol with every kept symbol     *)
(* unchanged.                                                              *)
SlicedNotMutated(r, m) ==
    \E q \in NodeSyms(m, <<>>) :
        /\ q.at = r.at
        /\ \/ q.extra = r.extra
           \/ \E k \in 0..(Len(r.extra) - 1) :
                  /\ q.extra = Slice(r.extra, 0, k)
                  /\ \E c \in NodeSyms(m, <<>>) :
                         /\ c.at = Slice(r.at \o r.extra, 0, Len(r.at) + k + 1)
                         /\ c.extra = SliceFrom(r.extra, k + 1)
                         /\ c.entry = r.entry

(* C30: after every step, the path of every node carrying an entry has    *)
(* exactly 22 symbols and is internalRepr of the entry's key; every leaf   *)
(* that existed before the step has the same path and key after it, and    *)
(* the extra symbols of every node that existed are kept unchanged, whole  *)
(* or sliced in two by a split.                                            *)
ThmC30_PathIsInternalKey ==
    [][/\ \A l \in LeafPaths(root') :
              Len(l.path) = KeyLen /\ l.path = internalRepr(l.key)
       /\ LeafPaths(root) \subseteq LeafPaths(root')
       /\ \A r \in NodeSyms(root, <<>>) : SlicedNotMutated(r, root')]_vars

WitC30_SplitNode ==
    /\ ret.op = "Put"
    /\ ~ret.err
    /\ Cardinality(LeafPaths(root)) >= 2
    /\ \A l \in LeafPaths(root) : l.path = internalRepr(l.key)
    /\ \E r \in NodeSyms(root, <<>>), l \in NodeSyms(root, <<>>) :
           /\ r.entry = Nil /\ r.at # <<>> /\ r.extra # <<>>
           /\ l.entry # Nil /\ l.extra # <<>>
           /\ Len(l.at) = Len(r.at) + Len(r.extra) + 1

(***************************************************************************)
(* Vocabulary of the trie's shape.                                         *)
(***************************************************************************)
(* The symbols above the node at path (child indexes) under n, the edge to *)
(* the node included and its own extra symbols excluded.                   *)
RECURSIVE SymsAbove(_, _)
SymsAbove(n, path) ==
    IF path = <<>> THEN <<>>
    ELSE n.extraChars \o <<EdgeSymbol(n, Head(path) + 1)>>
             \o SymsAbove(At(n.children, Head(path)), Tail(path))

(* Every entry below the i-th child of a node has, at the depth of the     *)
(* node's edges, the i-th lowest symbol of the node's bitmap.              *)
RECURSIVE ChildrenAscending(_, _)
ChildrenAscending(n, depth) ==
    LET d == depth + Len(n.extraChars)
    IN  \A i \in 1..Len(n.children) :
            /\ i <= Cardinality(n.bitmap)
            /\ TrieEntries(n.children[i]) # {}
            /\ \A e \in TrieEntries(n.children[i]) :
                   /\ At(internalRepr(e.Key), d) = EdgeSymbol(n, i)
                   /\ getChildIdx(n.bitmap, At(internalRepr(e.Key), d)) = i - 1
            /\ \A j \in (i + 1)..Len(n.children) :
                   \A a \in TrieEntries(n.children[i]), b \in TrieEntries(n.children[j]) :
                       LesserThan(a.Key, b.Key)
            /\ ChildrenAscending(n.children[i], d + 1)

(* C31: after any sequence of Put calls, every node without an entry,      *)
(* other than the root of a stream that holds no entry, has a bitmap that  *)
(* is not 0 and as many children as the bitmap has bits; every node with   *)
(* an entry has bitmap 0 and no children.                                  *)
ThmC31_BitmapCountsChildren ==
    \A n \in TrieNodes(root) :
        /\ n.entry = Nil /\ ~(n = root /\ TrieEntries(root) = {}) =>
               n.bitmap # {} /\ Len(n.children) = Cardinality(n.bitmap)
        /\ n.entry # Nil => n.bitmap = {} /\ n.children = <<>>

WitC31_TwoLevels ==
    /\ Cardinality(TrieEntries(root)) = 3
    /\ \E n \in TrieNodes(root), m \in TrieNodes(root) :
           /\ n # m
           /\ n.entry = Nil /\ Cardinality(n.bitmap) = 2 /\ Len(n.children) = 2
           /\ m.entry = Nil /\ Cardinality(m.bitmap) = 2 /\ Len(m.children) = 2
    /\ \E l \in TrieNodes(root) : l.entry # Nil /\ l.bitmap = {} /\ l.extraChars # <<>>

(* C32: in every reachable state each node's children are stored in        *)
(* ascending order of their edge symbol, the child for symbol s at the     *)
(* index getChildIdx gives for s, and getAllLeaves on any node returns all *)
(* entries of its subtree, each once, in ascending key order.              *)
ThmC32_ChildrenAscending ==
    /\ ChildrenAscending(root, 0)
    /\ \A n \in TrieNodes(root) :
           /\ getAllLeaves(n) = SortAsc(TrieEntries(n))
           /\ Len(getAllLeaves(n)) = Cardinality(TrieEntries(n))

WitC32_ThreeLeavesInOrder ==
    /\ Len(getAllLeaves(root)) = 3
    /\ getAllLeaves(root)[3].Key = MaxKey
    /\ LesserThan(getAllLeaves(root)[1].Key, getAllLeaves(root)[2].Key)
    /\ getAllLeaves(root)[1].Key.LeftNr # getAllLeaves(root)[2].Key.LeftNr
    /\ \E n \in TrieNodes(root) : n # root /\ Len(getAllLeaves(n)) = 2

(* C33: longestCommonPrefix returns failIdx = -1 exactly when the key is   *)
(* the internal key of a stored entry, and then the returned node carries  *)
(* that entry; when failIdx is not -1 the key matches the trie up to       *)
(* failIdx, the returned node has no extra symbol and no child edge that   *)
(* matches key[failIdx], and extraFailIdx is not -1 exactly when the       *)
(* mismatch is inside the node's extra symbols.                            *)
ThmC33_LcpExactOrMiss ==
    \A key \in Keys \cup {MinKey} :
        LET ik == internalRepr(key)
            lcp == longestCommonPrefix(root, ik)
            node == NodeAt(root, lcp.bestMatch)
            above == SymsAbove(root, lcp.bestMatch)
            inExtra == lcp.failIdx < Len(above) + Len(node.extraChars)
        IN  /\ lcp.failIdx = -1 <=> \E e \in TrieEntries(root) : e.Key = key
            /\ lcp.failIdx = -1 =>
                   /\ node.entry # Nil
                   /\ Deref(node.entry).Key = key
                   /\ lcp.extraFailIdx = -1
            /\ lcp.failIdx # -1 =>
                   /\ lcp.failIdx \in 0..(KeyLen - 1)
                   /\ Slice(above \o node.extraChars, 0, lcp.failIdx) = Slice(ik, 0, lcp.failIdx)
                   /\ lcp.extraFailIdx # -1 <=> inExtra
                   /\ inExtra =>
                          /\ lcp.extraFailIdx = lcp.failIdx - Len(above)
                          /\ At(node.extraChars, lcp.extraFailIdx) # At(ik, lcp.failIdx)
                   /\ ~inExtra =>
                          /\ lcp.failIdx = Len(above) + Len(node.extraChars)
                          /\ At(ik, lcp.failIdx) \notin node.bitmap

WitC33_HitAndBothMisses ==
    /\ TrieEntries(root) # {}
    /\ \E k1 \in Keys, k2 \in Keys, k3 \in Keys :
           /\ longestCommonPrefix(root, internalRepr(k1)).failIdx = -1
           /\ longestCommonPrefix(root, internalRepr(k2)).failIdx # -1
           /\ longestCommonPrefix(root, internalRepr(k2)).extraFailIdx # -1
           /\ longestCommonPrefix(root, internalRepr(k3)).failIdx # -1
           /\ longestCommonPrefix(root, internalRepr(k3)).extraFailIdx = -1
           /\ longestCommonPrefix(root, internalRepr(k3)).bestMatch # <<>>

(* C35: in every call of Put that passes the key check, create does not    *)
(* find the node already there, and the Put adds exactly one leaf: the     *)
(* entries before it are kept and the number of entries grows by one, so   *)
(* that it stays equal to the number of successful Puts.                   *)
ThmC35_PutNeverOverwrites ==
    [][ret'.op = "Put" /\ ~ret'.err =>
           /\ longestCommonPrefix(root, internalRepr(ret'.key)).failIdx # -1
           /\ TrieEntries(root) \subseteq TrieEntries(root')
           /\ Cardinality(TrieEntries(root')) = Cardinality(TrieEntries(root)) + 1
           /\ Cardinality(TrieEntries(root')) = Cardinality(cmpMap')]_vars

WitC35_ThirdPut ==
    /\ ret.op = "Put"
    /\ ~ret.err
    /\ Cardinality(TrieEntries(root)) = 3
    /\ Cardinality(cmpMap) = 3
    /\ \E e \in TrieEntries(root) : e.Key = ret.key /\ e.Val = ret.val

(***************************************************************************)
(* Vocabulary of the XADD properties.                                      *)
(***************************************************************************)
(* The entries of the stream stored under the name, none if none is.       *)
StoredEntries(d) == IF d.store = Nil THEN {} ELSE TrieEntries(d.objs[Deref(d.store)].root)

(* C34: an XADD that found no stream under the name and fails after the    *)
(* lookup leaves a stream stored under the name, to which it has added no  *)
(* entry: an empty stream unless another session has put into it; an XADD  *)
(* that fails for its arity leaves the key-value store as it was.          *)
ThmC34_FailedXAddLeavesStream ==
    [][\A w \in Writers :
           /\ (sess'[w].pc = "done" /\ sess[w].pc # "done" /\ sess'[w].arity) =>
                  /\ db' = db
                  /\ sess[w].pc = "idle"
           /\ (/\ sess'[w].pc = "done" /\ sess[w].pc # "done"
               /\ sess'[w].err /\ sess'[w].missed) =>
                  /\ ~sess'[w].arity
                  /\ db'.store # Nil
                  /\ \A e \in StoredEntries(db') : e.Val # XAddVal(w)
                  /\ (\A v \in Writers \ {w} : ~sess'[v].putOk /\ sess'[v].pc # "reply") =>
                         /\ StoredEntries(db') = {}
                         /\ db'.objs[Deref(db'.store)] = NewStream]_vars

WitC34_EmptyStreamLeft ==
    /\ \A w \in Writers : sess[w].pc = "done" /\ sess[w].err
    /\ sess["w1"].missed /\ ~sess["w1"].arity /\ sess["w1"].cmds.n = XAddMinTokens + 1
    /\ sess["w2"].arity
    /\ db.store = Ref("w1")
    /\ db.objs["w1"] = NewStream

(* C37: two sessions that concurrently XADD to a stream name that does not *)
(* exist yet write to one and the same stream object: once both have       *)
(* replied with an ID, both hold the object stored under the name, and the *)
(* entry each has put is found in that stream.                             *)
CexC37_OneStreamObject ==
    (\A w \in Writers : sess[w].pc = "done" /\ sess[w].replied) =>
        \A w \in Writers :
            /\ sess[w].stream = db.store
            /\ sess[w].putOk =>
                   \E e \in StoredEntries(db) : e.Key = sess[w].key /\ e.Val = XAddVal(w)

(* C38: when an entry with a key greater than the key asked for is put on  *)
(* a named stream after XREAD BLOCK has computed its empty result for that *)
(* stream and before its subscription to the stream is registered, the     *)
(* call returns that entry: it is not left waiting for a later put, does   *)
(* not time out, and does not return without the entry.                    *)
CexC38_NoLostWakeUp ==
    \A x \in XReaders, w \in Writers :
        (/\ sess[w].pc = "done" /\ ~sess[w].err
         /\ x \notin sess[w].subsAtPut
         /\ x \in LiveChans(db[sess[w].stream])
         /\ sess[x].emptyResult /\ sess[x].block.present /\ ~sess[x].err
         /\ \E i \in 1..Len(sess[x].checked) :
                /\ sess[x].checked[i].stream = sess[w].stream
                /\ GreaterThan(sess[w].entry.Key, sess[x].checked[i].fromKey)
                /\ GreaterThan(sess[w].entry.Key, sess[x].checked[i].last))
            => /\ ~(sess[x].pc = "recv" /\ chans[x].buf = <<>>)
               /\ ~(sess[x].pc = "done" /\ sess[x].timedOut)
               /\ sess[x].pc = "done" =>
                      /\ sess[w].stream \in DOMAIN sess[x].results
                      /\ InSeq(sess[w].entry, sess[x].results[sess[w].stream])

(* C36: for every last key and every number L that is at least last.left,  *)
(* the key parsed from "L-*" is strictly greater than the last key, also    *)
(* when last.right is the greatest number of the word.                     *)
CexC36_PartialWildcardAboveLast ==
    (/\ kc.stage = "parsed"
     /\ HasHyphen(kc.text)
     /\ AfterHyphen(kc.text) = <<Star>>
     /\ BeforeHyphen(kc.text) # <<>>
     /\ AllDigits(BeforeHyphen(kc.text))
     /\ DecimalValue(BeforeHyphen(kc.text)) <= MaxUint64
     /\ DecimalValue(BeforeHyphen(kc.text)) >= kc.last.LeftNr) =>
        /\ ~kc.err
        /\ kc.key.LeftNr = DecimalValue(BeforeHyphen(kc.text))
        /\ GreaterThan(kc.key, kc.last)

(* C39: getChildIdx(bitmap, s) is the number of bits of the bitmap below   *)
(* bit s, for every bitmap and every symbol s in 0..63, and 0 for s = 0;   *)
(* it evaluates no shift by 64 (nor by more), and the result is an index   *)
(* from 0 to the number of bits of the bitmap.                             *)
ThmC39_ChildIdxIsPopcountBelow ==
    kc.stage = "idx" =>
        /\ kc.idx = Cardinality({b \in kc.bitmap : b < kc.bitmapOffset})
        /\ kc.bitmapOffset = 0 => kc.idx = 0
        /\ \A k \in kc.shifts : k >= 0 /\ k < BitmapBits
        /\ kc.idx >= 0 /\ kc.idx <= Cardinality(kc.bitmap)

WitC39_HighestSymbol ==
    /\ kc.stage = "idx"
    /\ kc.bitmap = BitmapSyms
    /\ kc.bitmapOffset = BitmapBits - 1
    /\ kc.idx = Cardinality(BitmapSyms) - 1
    /\ kc.shifts = {1}

=============================================================================
